---------------------------- MODULE Spec2Model ----------------------------
(***************************************************************************)
(* lalrpop/src/lr1/codegen/parse_table.rs: the compiler from an LR(1)      *)
(* automaton to a table driven parser.  The module models                  *)
(*   - the reduce index map built by new_table_driven,                     *)
(*   - the three tables emitted by write_parse_table (ACTION, EOF_ACTION,  *)
(*     GOTO) as the flat integer sequences written to the output, and      *)
(*   - the parser function and the reduce function that write_parser_fn    *)
(*     and emit_reduce_actions generate, run over a token stream.          *)
(* Sequences are 1-based here and 0-based in the source: the cell the      *)
(* source calls TABLE[i] is TABLE[i + 1] below.                            *)
(***************************************************************************)
EXTENDS Integers, Sequences, FiniteSets, TLC

VARIABLES
    grammar,        \* self.grammar: the Grammar being compiled
    lr_states,      \* self.states: the LR(1) automaton, lr_states[i + 1] is state i
    input,          \* the items the token stream yields, in order
    custom,         \* self.custom: the TableDriven record
    ACTION_TABLE,   \* the emitted ACTION table (ACTION is a reserved word)
    EOF_ACTION,     \* the emitted EOF_ACTION table
    GOTO,           \* the emitted GOTO table
    pc,             \* position in the generator / the generated parser
    pos,            \* number of items pulled from the token stream
    states,         \* __states: the stack of state indexes
    symbols,        \* __symbols: the stack of (start, value, end) triples
    lookahead,      \* __lookahead
    integer,        \* __integer
    state,          \* __state
    action,         \* __action
    lookahead_start,\* the reduce function's __lookahead_start argument
    nonterminal,    \* __nonterminal of the reduce function
    goto_state,     \* __state of the reduce function
    next_state,     \* __next_state of the reduce function
    result,         \* what the parser function returned (or how it aborted)
    shifted,        \* history: the lookaheads shifted so far, in order
    lr1             \* the arguments of the test helper `items` and what it returned

vars == <<grammar, lr_states, input, custom, ACTION_TABLE, EOF_ACTION, GOTO, pc, pos,
          states, symbols, lookahead, integer, state, action, lookahead_start,
          nonterminal, goto_state, next_state, result, shifted, lr1>>

inputs == <<grammar, lr_states, input>>
tables == <<custom, ACTION_TABLE, EOF_ACTION, GOTO>>
driver == <<pos, states, symbols, lookahead, integer, state, action,
            lookahead_start, nonterminal, goto_state, next_state, result, shifted>>

-----------------------------------------------------------------------------
(* Bounds of the inputs.                                                   *)

MaxStates == 2
MaxReductions == 2
MaxTokens == 4

-----------------------------------------------------------------------------
(* Generic helpers.                                                        *)

Range(s) == {s[i] : i \in DOMAIN s}

Last(s) == s[Len(s)]

\* Option::None
None == [some |-> FALSE]

\* the parser function has not returned
NoResult == [tag |-> "none"]

Some(v) == [some |-> TRUE, v |-> v]

-----------------------------------------------------------------------------
(* The data model of grammar::repr and lr1::core, as far as the code       *)
(* generator reads it.                                                     *)

\* Symbol::Terminal(t)
Terminal(t) == [kind |-> "Terminal", id |-> t]

\* Symbol::Nonterminal(nt)
Nonterminal(nt) == [kind |-> "Nonterminal", id |-> nt]

\* Token::Terminal(t), the lookahead alphabet of the reductions
TokenTerminal(t) == [token |-> "Terminal", id |-> t]

\* Token::EOF
TokenEOF == [token |-> "EOF", id |-> ""]

Production(nt, syms, act) == [nonterminal |-> nt, symbols |-> syms, action |-> act]

\* an LR(1) item: production, position of the dot, lookahead
Item(p, index, la) == [production |-> p, index |-> index, lookahead |-> la]

\* no call of the test helper `items`
NoClosure == [nonterminal |-> "", index |-> 0, lookahead |-> TokenEOF, items |-> {}]

\* grammar.nonterminals.keys()
nonterminals_keys(g) == [i \in DOMAIN g.nonterminals |-> g.nonterminals[i].name]

\* grammar.nonterminals.values().flat_map(|nt| &nt.productions)
RECURSIVE flat_map(_)
flat_map(nts) ==
    IF nts = <<>> THEN <<>>
    ELSE Head(nts).productions \o flat_map(Tail(nts))

\* iter.zip(start..)
zip(ps, start) == [i \in DOMAIN ps |-> <<ps[i], start + (i - 1)>>]

\* pairs.collect() into a Map: a later pair replaces an earlier one of the same key
collect(pairs) ==
    [k \in {pairs[i][1] : i \in DOMAIN pairs} |->
        LET last == CHOOSE i \in DOMAIN pairs :
                        /\ pairs[i][1] = k
                        /\ \A j \in DOMAIN pairs : pairs[j][1] = k => j <= i
        IN  pairs[last][2]]

-----------------------------------------------------------------------------
(* new_table_driven: the reduce index map.                                 *)

reduce_indices_from_one(g) == collect(zip(flat_map(g.nonterminals), 1))

reduce_indices(g) == collect(zip(flat_map(g.nonterminals), 0))

TableDriven(g) ==
    [all_nonterminals |-> nonterminals_keys(g),
     reduce_indices   |-> reduce_indices(g)]

-----------------------------------------------------------------------------
(* write_parse_table and write_reduction.                                  *)

\* state.reductions.iter().filter(|(t, _)| t.contains(token)).map(|(_, p)| p)
matching_productions(st, token) ==
    LET hit(r) == token \in r[1]
        kept == SelectSeq(st.reductions, hit)
    IN  [i \in DOMAIN kept |-> kept[i][2]]

write_reduction_last(cust, st, token) ==
    LET reduction == matching_productions(st, token)
    IN  IF reduction # <<>>
        THEN -(cust.reduce_indices[Last(reduction)] + 1)
        ELSE 0

write_reduction(cust, st, token) ==
    LET reduction == matching_productions(st, token)
    IN  IF reduction # <<>>
        THEN -(cust.reduce_indices[Head(reduction)] + 1)
        ELSE 0

action_entry_reduce_first(cust, st, terminal) ==
    IF write_reduction(cust, st, TokenTerminal(terminal)) # 0
    THEN write_reduction(cust, st, TokenTerminal(terminal))
    ELSE IF terminal \in DOMAIN st.shifts THEN st.shifts[terminal] + 1 ELSE 0

action_entry_state_plus_two(cust, st, terminal) ==
    IF terminal \in DOMAIN st.shifts
    THEN st.shifts[terminal] + 2
    ELSE write_reduction(cust, st, TokenTerminal(terminal))

\* the closure mapped over grammar.terminals.all for one state of ACTION
action_entry(cust, st, terminal) ==
    IF terminal \in DOMAIN st.shifts
    THEN st.shifts[terminal] + 1
    ELSE write_reduction(cust, st, TokenTerminal(terminal))

goto_entry_no_offset(st, nt) ==
    IF nt \in DOMAIN st.gotos THEN st.gotos[nt] ELSE 0

\* the closure mapped over grammar.nonterminals.keys() for one state of GOTO
goto_entry(st, nt) ==
    IF nt \in DOMAIN st.gotos THEN st.gotos[nt] + 1 ELSE 0

\* the rows written by successive write_table_row calls, one after the other
RECURSIVE write_table_rows(_)
write_table_rows(rows) ==
    IF rows = <<>> THEN <<>>
    ELSE Head(rows) \o write_table_rows(Tail(rows))

action_table_terminal_major(g, sts, cust) ==
    write_table_rows([j \in DOMAIN g.terminals |->
        [i \in DOMAIN sts |-> action_entry(cust, sts[i], g.terminals[j])]])

action_table(g, sts, cust) ==
    write_table_rows([i \in DOMAIN sts |->
        [j \in DOMAIN g.terminals |-> action_entry(cust, sts[i], g.terminals[j])]])

eof_action_table_reversed(sts, cust) ==
    write_table_rows([i \in DOMAIN sts |->
        <<write_reduction(cust, sts[Len(sts) + 1 - i], TokenEOF)>>])

eof_action_table(sts, cust) ==
    write_table_rows([i \in DOMAIN sts |->
        <<write_reduction(cust, sts[i], TokenEOF)>>])

goto_table(g, sts) ==
    write_table_rows([i \in DOMAIN sts |->
        [j \in DOMAIN g.nonterminals |->
            goto_entry(sts[i], nonterminals_keys(g)[j])]])

-----------------------------------------------------------------------------
(* Inputs of the table builder: two small grammars, and automata of up to  *)
(* MaxStates states in which one state is arbitrary (shift and goto edges  *)
(* on any terminals and nonterminals, to the first or the last state; any  *)
(* list of up to MaxReductions reductions, which may overlap each other    *)
(* and the shift edges) and the other states are a fixed state.            *)

TableGrammar1 ==
    [terminals |-> <<"a", "b">>,
     nonterminals |->
        << [name |-> "A",
            productions |-> << Production("A", <<Terminal("a"), Nonterminal("B")>>, 0),
                               Production("A", <<>>, 1) >>],
           [name |-> "B",
            productions |-> << Production("B", <<Terminal("b")>>, 2) >>] >>,
     start_symbol |-> "A",
     fallible |-> {},
     intern_token |-> FALSE]

TableGrammar2 ==
    [terminals |-> <<"x">>,
     nonterminals |->
        << [name |-> "X",
            productions |-> << Production("X", <<Terminal("x")>>, 0) >>],
           [name |-> "Y",
            productions |-> << Production("Y", <<Nonterminal("X")>>, 1) >>],
           [name |-> "Z",
            productions |-> << Production("Z", <<Nonterminal("Y")>>, 2),
                               Production("Z", <<>>, 3) >>] >>,
     start_symbol |-> "Z",
     fallible |-> {},
     intern_token |-> TRUE]

TableGrammars == {TableGrammar1, TableGrammar2}

\* maps from some of the keys to a state index
EdgeMaps(keys, targets) == UNION {[D -> targets] : D \in SUBSET keys}

\* the entries a reductions list is made of: two productions under one
\* lookahead set (first terminal and EOF), one of them under another (last
\* terminal)
ReductionEntries(g) ==
    { <<{TokenTerminal(g.terminals[1]), TokenEOF}, Head(flat_map(g.nonterminals))>>,
      <<{TokenTerminal(g.terminals[1]), TokenEOF}, Last(flat_map(g.nonterminals))>>,
      <<{TokenTerminal(Last(g.terminals))}, Last(flat_map(g.nonterminals))>> }

RECURSIVE ReductionLists(_, _)
ReductionLists(g, n) ==
    IF n = 0 THEN {<<>>}
    ELSE ReductionLists(g, n - 1) \cup
         {Append(l, e) : l \in {x \in ReductionLists(g, n - 1) : Len(x) = n - 1},
                         e \in ReductionEntries(g)}

StressStates(g, S) ==
    {[shifts |-> sh, gotos |-> gt, reductions |-> rd] :
        sh \in EdgeMaps(Range(g.terminals), {0, S - 1}),
        gt \in EdgeMaps(Range(nonterminals_keys(g)), {0, S - 1}),
        rd \in ReductionLists(g, MaxReductions)}

FillerState(g) ==
    [shifts |-> [t \in {g.terminals[1]} |-> 0],
     gotos |-> [n \in {Last(nonterminals_keys(g))} |-> 0],
     reductions |-> << <<{TokenEOF}, Last(flat_map(g.nonterminals))>> >>]

StressAutomata(g) ==
    {[i \in 1..S |-> IF i = k THEN st ELSE FillerState(g)] :
        <<S, k, st>> \in UNION {{<<S, k, st>> : k \in 1..S, st \in StressStates(g, S)} :
                                 S \in 1..MaxStates}}

-----------------------------------------------------------------------------
(* The generator's steps.                                                  *)

DriverIdle ==
    /\ pos = 0
    /\ states = <<>>
    /\ symbols = <<>>
    /\ lookahead = <<0, "", 0>>
    /\ integer = 0
    /\ state = 0
    /\ action = 0
    /\ lookahead_start = None
    /\ nonterminal = 0
    /\ goto_state = 0
    /\ next_state = 0
    /\ result = NoResult
    /\ shifted = <<>>

new_table_driven ==
    /\ pc = "new"
    /\ custom' = TableDriven(grammar)
    /\ pc' = "write"
    /\ UNCHANGED <<inputs, lr1, ACTION_TABLE, EOF_ACTION, GOTO, driver>>

write_parse_table ==
    /\ pc = "write"
    /\ ACTION_TABLE' = action_table(grammar, lr_states, custom)
    /\ EOF_ACTION' = eof_action_table(lr_states, custom)
    /\ GOTO' = goto_table(grammar, lr_states)
    /\ pc' = "parse"
    /\ UNCHANGED <<inputs, lr1, custom, driver>>

TableInit ==
    /\ grammar \in TableGrammars
    /\ lr_states \in StressAutomata(grammar)
    /\ input = <<>>
    /\ custom = [all_nonterminals |-> <<>>, reduce_indices |-> <<>>]
    /\ ACTION_TABLE = <<>>
    /\ EOF_ACTION = <<>>
    /\ GOTO = <<>>
    /\ pc = "new"
    /\ DriverIdle
    /\ lr1 = NoClosure

TableNext == new_table_driven \/ write_parse_table

SpecTable == TableInit /\ [][TableNext]_vars

-----------------------------------------------------------------------------
(* Inputs of the parser: five grammars with their LR(1) automata, and      *)
(* every token stream of up to MaxTokens items, an item being a token of   *)
(* one of the grammar's terminals, a token no terminal pattern matches     *)
(* ("?"), or an error of the token source.  In the last grammar a terminal *)
(* and a nonterminal have the same identifier, and the start symbol stands *)
(* on a right-hand side, so that a production of the start symbol is       *)
(* reduced with a terminal as the lookahead.  The fifth grammar is the one *)
(* of the test start_state_1: two nonterminals in a row that may both be   *)
(* empty, so that empty productions are reduced at end of input, on an     *)
(* empty value stack and on top of a value.                                *)

SingleGrammar ==
    [terminals |-> <<"a">>,
     nonterminals |->
        << [name |-> "S",
            productions |-> << Production("S", <<Terminal("a")>>, 0) >>] >>,
     start_symbol |-> "S",
     fallible |-> {},
     intern_token |-> FALSE]

SingleStates ==
    << \* state 0
       [shifts |-> ("a" :> 1),
        gotos |-> <<>>,
        reductions |-> <<>>],
       \* state 1
       [shifts |-> <<>>,
        gotos |-> <<>>,
        reductions |-> << <<{TokenEOF}, Production("S", <<Terminal("a")>>, 0)>> >>] >>

OptionGrammar ==
    [terminals |-> <<"C", "D">>,
     nonterminals |->
        << [name |-> "A",
            productions |-> << Production("A", <<Nonterminal("B"), Terminal("C")>>, 0) >>],
           [name |-> "B",
            productions |-> << Production("B", <<Terminal("D")>>, 1),
                               Production("B", <<>>, 2) >>],
           [name |-> "__A",
            productions |-> << Production("__A", <<Nonterminal("A")>>, 3) >>] >>,
     start_symbol |-> "__A",
     fallible |-> {},
     intern_token |-> TRUE]

OptionStates ==
    << \* state 0
       [shifts |-> ("D" :> 2),
        gotos |-> ("B" :> 1 @@ "A" :> 3),
        reductions |-> << <<{TokenTerminal("C")}, Production("B", <<>>, 2)>> >>],
       \* state 1
       [shifts |-> ("C" :> 4),
        gotos |-> <<>>,
        reductions |-> <<>>],
       \* state 2
       [shifts |-> <<>>,
        gotos |-> <<>>,
        reductions |-> << <<{TokenTerminal("C")}, Production("B", <<Terminal("D")>>, 1)>> >>],
       \* state 3
       [shifts |-> <<>>,
        gotos |-> <<>>,
        reductions |-> << <<{TokenEOF}, Production("__A", <<Nonterminal("A")>>, 3)>> >>],
       \* state 4
       [shifts |-> <<>>,
        gotos |-> <<>>,
        reductions |-> << <<{TokenEOF}, Production("A", <<Nonterminal("B"), Terminal("C")>>, 0)>> >>] >>

SumGrammar ==
    [terminals |-> <<"+", "n">>,
     nonterminals |->
        << [name |-> "E",
            productions |-> << Production("E", <<Nonterminal("E"), Terminal("+"), Nonterminal("T")>>, 0),
                               Production("E", <<Nonterminal("T")>>, 1) >>],
           [name |-> "T",
            productions |-> << Production("T", <<Terminal("n")>>, 2) >>],
           [name |-> "__E",
            productions |-> << Production("__E", <<Nonterminal("E")>>, 3) >>] >>,
     start_symbol |-> "__E",
     fallible |-> {2},
     intern_token |-> FALSE]

SumStates ==
    << \* state 0
       [shifts |-> ("n" :> 3),
        gotos |-> ("E" :> 1 @@ "T" :> 2),
        reductions |-> <<>>],
       \* state 1
       [shifts |-> ("+" :> 4),
        gotos |-> <<>>,
        reductions |-> << <<{TokenEOF}, Production("__E", <<Nonterminal("E")>>, 3)>> >>],
       \* state 2
       [shifts |-> <<>>,
        gotos |-> <<>>,
        reductions |-> << <<{TokenEOF, TokenTerminal("+")}, Production("E", <<Nonterminal("T")>>, 1)>> >>],
       \* state 3
       [shifts |-> <<>>,
        gotos |-> <<>>,
        reductions |-> << <<{TokenEOF, TokenTerminal("+")}, Production("T", <<Terminal("n")>>, 2)>> >>],
       \* state 4
       [shifts |-> ("n" :> 3),
        gotos |-> ("T" :> 5),
        reductions |-> <<>>],
       \* state 5
       [shifts |-> <<>>,
        gotos |-> <<>>,
        reductions |-> << <<{TokenEOF, TokenTerminal("+")}, Production("E", <<Nonterminal("E"), Terminal("+"), Nonterminal("T")>>, 0)>> >>] >>

PairGrammar ==
    [terminals |-> <<"L", "a">>,
     nonterminals |->
        << [name |-> "L",
            productions |-> << Production("L", <<Terminal("a")>>, 0) >>],
           [name |-> "P",
            productions |-> << Production("P", <<Nonterminal("L"), Terminal("L")>>, 1),
                               Production("P", <<Nonterminal("P"), Terminal("a")>>, 2) >>] >>,
     start_symbol |-> "P",
     fallible |-> {},
     intern_token |-> FALSE]

PairStates ==
    << \* state 0
       [shifts |-> ("a" :> 1),
        gotos |-> ("L" :> 2 @@ "P" :> 3),
        reductions |-> <<>>],
       \* state 1
       [shifts |-> <<>>,
        gotos |-> <<>>,
        reductions |-> << <<{TokenTerminal("L")}, Production("L", <<Terminal("a")>>, 0)>> >>],
       \* state 2
       [shifts |-> ("L" :> 4),
        gotos |-> <<>>,
        reductions |-> <<>>],
       \* state 3
       [shifts |-> ("a" :> 5),
        gotos |-> <<>>,
        reductions |-> <<>>],
       \* state 4
       [shifts |-> <<>>,
        gotos |-> <<>>,
        reductions |-> << <<{TokenEOF, TokenTerminal("a")}, Production("P", <<Nonterminal("L"), Terminal("L")>>, 1)>> >>],
       \* state 5
       [shifts |-> <<>>,
        gotos |-> <<>>,
        reductions |-> << <<{TokenEOF, TokenTerminal("a")}, Production("P", <<Nonterminal("P"), Terminal("a")>>, 2)>> >>] >>


SeqGrammar ==
    [terminals |-> <<"B1", "C1">>,
     nonterminals |->
        << [name |-> "A",
            productions |-> << Production("A", <<Nonterminal("B"), Nonterminal("C")>>, 0) >>],
           [name |-> "B",
            productions |-> << Production("B", <<Terminal("B1")>>, 1),
                               Production("B", <<>>, 2) >>],
           [name |-> "C",
            productions |-> << Production("C", <<Terminal("C1")>>, 3),
                               Production("C", <<>>, 4) >>],
           [name |-> "__A",
            productions |-> << Production("__A", <<Nonterminal("A")>>, 5) >>] >>,
     start_symbol |-> "__A",
     fallible |-> {},
     intern_token |-> FALSE]

SeqStates ==
    << \* state 0
       [shifts |-> ("B1" :> 2),
        gotos |-> ("B" :> 1 @@ "A" :> 3),
        reductions |-> << <<{TokenEOF, TokenTerminal("C1")}, Production("B", <<>>, 2)>> >>],
       \* state 1
       [shifts |-> ("C1" :> 5),
        gotos |-> ("C" :> 4),
        reductions |-> << <<{TokenEOF}, Production("C", <<>>, 4)>> >>],
       \* state 2
       [shifts |-> <<>>,
        gotos |-> <<>>,
        reductions |-> << <<{TokenEOF, TokenTerminal("C1")}, Production("B", <<Terminal("B1")>>, 1)>> >>],
       \* state 3
       [shifts |-> <<>>,
        gotos |-> <<>>,
        reductions |-> << <<{TokenEOF}, Production("__A", <<Nonterminal("A")>>, 5)>> >>],
       \* state 4
       [shifts |-> <<>>,
        gotos |-> <<>>,
        reductions |-> << <<{TokenEOF}, Production("A", <<Nonterminal("B"), Nonterminal("C")>>, 0)>> >>],
       \* state 5
       [shifts |-> <<>>,
        gotos |-> <<>>,
        reductions |-> << <<{TokenEOF}, Production("C", <<Terminal("C1")>>, 3)>> >>] >>


ParserInputs ==
    { <<SingleGrammar, SingleStates>>,
      <<OptionGrammar, OptionStates>>,
      <<SumGrammar, SumStates>>,
      <<PairGrammar, PairStates>>,
      <<SeqGrammar, SeqStates>> }

\* the i-th item of a stream spans the locations 2i-1 .. 2i; the default
\* location (Default::default()) is 0; an error of the token source is a
\* value of its own, told apart by where it was raised
DefaultLocation == 0

StreamItem(i, kind) ==
    IF kind = "Err"
    THEN [item |-> "Err", error |-> [raised_at |-> i]]
    ELSE [item |-> "Ok", v |-> <<2 * i - 1, kind, 2 * i>>]

Streams(g) ==
    UNION {{[i \in 1..n |-> StreamItem(i, f[i])] :
                f \in [1..n -> Range(g.terminals) \cup {"?", "Err"}]} :
           n \in 0..MaxTokens}

-----------------------------------------------------------------------------
(* The generated parser function (write_parser_fn) and the generated       *)
(* reduce function (emit_reduce_actions, emit_reduce_action).              *)

Ok(v) == [tag |-> "Ok", v |-> v]
Err(e) == [tag |-> "Err", e |-> e]
Panic(msg) == [tag |-> "panic", msg |-> msg]

\* lalrpop_util::ParseError::UnrecognizedToken { token, expected }
UnrecognizedToken(token, expected) ==
    [error |-> "UnrecognizedToken", token |-> token, expected |-> expected]

\* lalrpop_util::ParseError::User { error }
User(e) == [error |-> "User", user |-> e]

\* the error a fallible action function returns when it fails
ActionError(act) == User([action |-> act])

\* the value an action function returns when it succeeds
ActionValue(act, args) == [action |-> act, args |-> args]

\* the characters an identifier is made of, one string each; every
\* identifier of the inputs that is not listed is one character long
Chars(name) ==
    CASE name = "__A" -> <<"_", "_", "A">>
      [] name = "__E" -> <<"_", "_", "E">>
      [] name = "B1" -> <<"B", "1">>
      [] name = "C1" -> <<"C", "1">>
      [] OTHER -> <<name>>

AlphaNumeric ==
    {"a", "b", "c", "d", "e", "f", "g", "h", "i", "j", "k", "l", "m",
     "n", "o", "p", "q", "r", "s", "t", "u", "v", "w", "x", "y", "z",
     "A", "B", "C", "D", "E", "F", "G", "H", "I", "J", "K", "L", "M",
     "N", "O", "P", "Q", "R", "S", "T", "U", "V", "W", "X", "Y", "Z",
     "0", "1", "2", "3", "4", "5", "6", "7", "8", "9"}

\* the code point of a character, in hexadecimal
Hex(c) ==
    CASE c = "+" -> "2b"
      [] c = "?" -> "3f"

\* what Escape writes for one character: letters and digits as they are,
\* an underscore doubled, any other character as an underscore and its
\* code point
EscapeChar(c) ==
    IF c \in AlphaNumeric THEN c
    ELSE IF c = "_" THEN "__"
    ELSE "_" \o Hex(c)

RECURSIVE EscapeAll(_)
EscapeAll(chars) ==
    IF chars = <<>> THEN ""
    ELSE EscapeChar(Head(chars)) \o EscapeAll(Tail(chars))

\* Escape(name): the name as written into an identifier
Escape(name) == EscapeAll(Chars(name))

variant_name_for_symbol_one_prefix(s) == "Sym" \o Escape(s.id)

variant_name_for_symbol(s) ==
    IF s.kind = "Nonterminal" THEN "Nt" \o Escape(s.id) ELSE "Term" \o Escape(s.id)

\* write_value_type_defn: the names of the variants of the __Symbol enum, one
\* per terminal and then one per nonterminal
write_value_type_defn(g) ==
    [i \in DOMAIN g.terminals |->
        variant_name_for_symbol(Terminal(g.terminals[i]))]
    \o [j \in DOMAIN g.nonterminals |->
        variant_name_for_symbol(Nonterminal(nonterminals_keys(g)[j]))]

\* grammar.pattern(terminal) matched against a token
pattern_matches(terminal, tok) == tok = terminal

token_to_integer_from_one(g, la) ==
    LET hits == {i \in DOMAIN g.terminals : pattern_matches(g.terminals[i], la[2])}
    IN  IF hits = {} THEN None
        ELSE Some(CHOOSE i \in hits : \A j \in hits : i <= j)

\* the arms of token_to_integer: Some(index) of the first terminal whose
\* pattern matches, None for the `_` arm
token_to_integer(g, la) ==
    LET hits == {i \in DOMAIN g.terminals : pattern_matches(g.terminals[i], la[2])}
    IN  IF hits = {} THEN None
        ELSE Some((CHOOSE i \in hits : \A j \in hits : i <= j) - 1)

\* token_to_symbol: the __Symbol variant of the lookahead's terminal
token_to_symbol(g, int, la) ==
    [variant |-> variant_name_for_symbol(Terminal(g.terminals[int + 1])),
     data    |-> [tok |-> la[2]]]

action_index_by_states(g, sts, st, int) == st * Len(sts) + int

\* __state * grammar.terminals.all.len() + __integer
action_index(g, sts, st, int) == st * Len(g.terminals) + int

\* __state * grammar.nonterminals.len() + __nonterminal
goto_index(g, sts, st, nt) == st * Len(g.nonterminals) + nt

\* table[i] of the source; FALSE in `ok` is the index out of bounds abort
\* (a negative i32 cast to usize lands beyond every table)
Index(table, i) ==
    IF i >= 0 /\ i + 1 \in DOMAIN table
    THEN [ok |-> TRUE, v |-> table[i + 1]]
    ELSE [ok |-> FALSE, v |-> 0]

reduce_arm_from_zero(g, act) ==
    LET all == flat_map(g.nonterminals)
    IN  IF (-act) + 1 \in DOMAIN all THEN Some(all[(-act) + 1]) ELSE None

\* match -__action { 1 => .., 2 => .., _ => panic!("invalid action code") }:
\* the production whose arm runs
reduce_arm(g, act) ==
    LET all == flat_map(g.nonterminals)
    IN  IF -act \in DOMAIN all THEN Some(all[-act]) ELSE None

Abort(msg) ==
    /\ result' = Panic(msg)
    /\ pc' = "done"

\* let mut __states = vec![0_i32]; let mut __symbols = vec![];
parse ==
    /\ pc = "parse"
    /\ states' = <<0>>
    /\ symbols' = <<>>
    /\ pc' = "shift"
    /\ UNCHANGED <<inputs, lr1, tables, pos, lookahead, integer, state, action,
                   lookahead_start, nonterminal, goto_state, next_state, result,
                   shifted>>

next_token_always_wraps ==
    /\ pc = "shift"
    /\ IF pos < Len(input)
       THEN /\ pos' = pos + 1
            /\ IF input[pos + 1].item = "Ok"
               THEN /\ lookahead' = input[pos + 1].v
                    /\ pc' = "classify"
                    /\ UNCHANGED result
               ELSE /\ result' = Err(User(input[pos + 1].error))
                    /\ pc' = "done"
                    /\ UNCHANGED lookahead
       ELSE /\ pc' = "eof"
            /\ UNCHANGED <<pos, lookahead, result>>
    /\ UNCHANGED <<inputs, lr1, tables, states, symbols, integer, state, action,
                   lookahead_start, nonterminal, goto_state, next_state, shifted>>

\* let __lookahead = match __tokens.next() { .. }
next_token ==
    /\ pc = "shift"
    /\ IF pos < Len(input)
       THEN /\ pos' = pos + 1
            /\ IF input[pos + 1].item = "Ok"
               THEN /\ lookahead' = input[pos + 1].v
                    /\ pc' = "classify"
                    /\ UNCHANGED result
               ELSE /\ result' = IF grammar.intern_token
                                 THEN Err(input[pos + 1].error)
                                 ELSE Err(User(input[pos + 1].error))
                    /\ pc' = "done"
                    /\ UNCHANGED lookahead
       ELSE /\ pc' = "eof"
            /\ UNCHANGED <<pos, lookahead, result>>
    /\ UNCHANGED <<inputs, lr1, tables, states, symbols, integer, state, action,
                   lookahead_start, nonterminal, goto_state, next_state, shifted>>

\* let __integer = match __lookahead { .. }
classify ==
    /\ pc = "classify"
    /\ IF token_to_integer(grammar, lookahead).some
       THEN /\ integer' = token_to_integer(grammar, lookahead).v
            /\ pc' = "resolve"
            /\ UNCHANGED result
       ELSE /\ result' = Err(UnrecognizedToken(Some(lookahead), <<>>))
            /\ pc' = "done"
            /\ UNCHANGED integer
    /\ UNCHANGED <<inputs, lr1, tables, pos, states, symbols, lookahead, state, action,
                   lookahead_start, nonterminal, goto_state, next_state, shifted>>

load_action_defaults_to_eof_row ==
    /\ pc = "resolve"
    /\ IF states = <<>>
       THEN Abort("unwrap") /\ UNCHANGED <<state, action>>
       ELSE LET cell == Index(ACTION_TABLE,
                              action_index(grammar, lr_states, Last(states), integer))
                eof_cell == Index(EOF_ACTION, Last(states))
            IN  /\ state' = Last(states)
                /\ IF Last(states) >= 0 /\ cell.ok /\ eof_cell.ok
                   THEN /\ action' = IF cell.v # 0 THEN cell.v ELSE eof_cell.v
                        /\ pc' = "dispatch"
                        /\ UNCHANGED result
                   ELSE Abort("index out of bounds") /\ UNCHANGED action
    /\ UNCHANGED <<inputs, lr1, tables, pos, states, symbols, lookahead, integer,
                   lookahead_start, nonterminal, goto_state, next_state, shifted>>

\* let __state = *__states.last().unwrap() as usize;
\* let __action = __ACTION[__state * T + __integer];
load_action ==
    /\ pc = "resolve"
    /\ IF states = <<>>
       THEN Abort("unwrap") /\ UNCHANGED <<state, action>>
       ELSE LET cell == Index(ACTION_TABLE,
                              action_index(grammar, lr_states, Last(states), integer))
            IN  /\ state' = Last(states)
                /\ IF Last(states) >= 0 /\ cell.ok
                   THEN action' = cell.v /\ pc' = "dispatch" /\ UNCHANGED result
                   ELSE Abort("index out of bounds") /\ UNCHANGED action
    /\ UNCHANGED <<inputs, lr1, tables, pos, states, symbols, lookahead, integer,
                   lookahead_start, nonterminal, goto_state, next_state, shifted>>

shift_pushes_action ==
    /\ pc = "dispatch"
    /\ action > 0
    /\ states' = Append(states, action)
    /\ symbols' = Append(symbols, <<lookahead[1],
                                    token_to_symbol(grammar, integer, lookahead),
                                    lookahead[3]>>)
    /\ shifted' = Append(shifted, lookahead)
    /\ pc' = "shift"
    /\ UNCHANGED <<inputs, lr1, tables, pos, lookahead, integer, state, action,
                   lookahead_start, nonterminal, goto_state, next_state, result>>

\* if __action > 0 { push; push; continue '__shift; }
shift ==
    /\ pc = "dispatch"
    /\ action > 0
    /\ states' = Append(states, action - 1)
    /\ symbols' = Append(symbols, <<lookahead[1],
                                    token_to_symbol(grammar, integer, lookahead),
                                    lookahead[3]>>)
    /\ shifted' = Append(shifted, lookahead)
    /\ pc' = "shift"
    /\ UNCHANGED <<inputs, lr1, tables, pos, lookahead, integer, state, action,
                   lookahead_start, nonterminal, goto_state, next_state, result>>

FailingPop_first_to_last(syms, p) ==
    LET k == Len(p.symbols)
        n == Len(syms)
        at(j) == n - (j - 1)
        bad(j) == \/ at(j) < 1
                  \/ syms[at(j)][2].variant # variant_name_for_symbol(p.symbols[j])
        fails == {j \in 1..k : bad(j)}
    IN  IF fails = {} THEN [j |-> 0, msg |-> ""]
        ELSE LET j == CHOOSE x \in fails : \A y \in fails : y <= x
             IN  [j |-> j,
                  msg |-> IF at(j) < 1 THEN "unwrap" ELSE "symbol type mismatch"]

\* the values the pops of emit_reduce_action take off the stack for
\* production p, last symbol first: the index of the first pop that aborts
\* (0 if none does) and why
FailingPop(syms, p) ==
    LET k == Len(p.symbols)
        n == Len(syms)
        at(j) == n - (k - j)
        bad(j) == \/ at(j) < 1
                  \/ syms[at(j)][2].variant # variant_name_for_symbol(p.symbols[j])
        fails == {j \in 1..k : bad(j)}
    IN  IF fails = {} THEN [j |-> 0, msg |-> ""]
        ELSE LET j == CHOOSE x \in fails : \A y \in fails : y <= x
             IN  [j |-> j,
                  msg |-> IF at(j) < 1 THEN "unwrap" ELSE "symbol type mismatch"]

Truncate_to_k(sts, k) ==
    IF k <= Len(sts)
    THEN {[ok |-> TRUE, v |-> SubSeq(sts, 1, k)]}
    ELSE {[ok |-> FALSE, v |-> sts], [ok |-> TRUE, v |-> sts]}

\* states.truncate(len - k): len - k underflows when k > len, which aborts in
\* a build with overflow checks and leaves the vector as it is otherwise
Truncate(sts, k) ==
    IF k <= Len(sts)
    THEN {[ok |-> TRUE, v |-> SubSeq(sts, 1, Len(sts) - k)]}
    ELSE {[ok |-> FALSE, v |-> sts], [ok |-> TRUE, v |-> sts]}

ReduceBody_returns_at_eof_only(ls) ==
    /\ lookahead_start' = ls
    /\ IF ~reduce_arm(grammar, action).some
       THEN /\ Abort("invalid action code")
            /\ UNCHANGED <<states, symbols, nonterminal>>
       ELSE
        LET p == reduce_arm(grammar, action).v
            k == Len(p.symbols)
            n == Len(symbols)
            pop == FailingPop(symbols, p)
        IN  IF pop.j # 0
            THEN /\ Abort(pop.msg)
                 /\ symbols' = SubSeq(symbols, 1, n - (k - pop.j) - 1)
                 /\ UNCHANGED <<states, nonterminal>>
            ELSE
             LET syms == SubSeq(symbols, n - k + 1, n)
                 rest == SubSeq(symbols, 1, n - k)
                 start == IF k > 0 THEN syms[1][1]
                          ELSE IF rest # <<>> THEN Last(rest)[3]
                          ELSE DefaultLocation
                 end == IF k > 0 THEN syms[k][3]
                        ELSE IF ls.some THEN ls.v
                        ELSE start
                 args == IF k = 0 THEN <<start, end>>
                         ELSE [i \in 1..k |-> <<syms[i][1], syms[i][2].data, syms[i][3]>>]
                 nt == ActionValue(p.action, args)
             IN  \E fails \in (IF p.action \in grammar.fallible THEN BOOLEAN ELSE {FALSE}),
                    cut \in Truncate(states, k) :
                    IF fails
                    THEN /\ result' = Err(ActionError(p.action))
                         /\ pc' = "done"
                         /\ symbols' = rest
                         /\ UNCHANGED <<states, nonterminal>>
                    ELSE IF p.nonterminal = grammar.start_symbol /\ ~ls.some
                    THEN /\ result' = Ok(nt)
                         /\ pc' = "done"
                         /\ symbols' = rest
                         /\ UNCHANGED <<states, nonterminal>>
                    ELSE IF ~cut.ok
                    THEN /\ Abort("attempt to subtract with overflow")
                         /\ symbols' = rest
                         /\ UNCHANGED <<states, nonterminal>>
                    ELSE /\ states' = cut.v
                         /\ symbols' = Append(rest,
                                <<start,
                                  [variant |-> variant_name_for_symbol(
                                                   Nonterminal(p.nonterminal)),
                                   data |-> nt],
                                  end>>)
                         /\ nonterminal' =
                                (CHOOSE i \in DOMAIN custom.all_nonterminals :
                                    custom.all_nonterminals[i] = p.nonterminal) - 1
                         /\ pc' = "goto"
                         /\ UNCHANGED result

ReduceBody_start_from_top_start(ls) ==
    /\ lookahead_start' = ls
    /\ IF ~reduce_arm(grammar, action).some
       THEN /\ Abort("invalid action code")
            /\ UNCHANGED <<states, symbols, nonterminal>>
       ELSE
        LET p == reduce_arm(grammar, action).v
            k == Len(p.symbols)
            n == Len(symbols)
            pop == FailingPop(symbols, p)
        IN  IF pop.j # 0
            THEN /\ Abort(pop.msg)
                 /\ symbols' = SubSeq(symbols, 1, n - (k - pop.j) - 1)
                 /\ UNCHANGED <<states, nonterminal>>
            ELSE
             LET syms == SubSeq(symbols, n - k + 1, n)
                 rest == SubSeq(symbols, 1, n - k)
                 start == IF k > 0 THEN syms[1][1]
                          ELSE IF rest # <<>> THEN Last(rest)[1]
                          ELSE DefaultLocation
                 end == IF k > 0 THEN syms[k][3]
                        ELSE IF ls.some THEN ls.v
                        ELSE start
                 args == IF k = 0 THEN <<start, end>>
                         ELSE [i \in 1..k |-> <<syms[i][1], syms[i][2].data, syms[i][3]>>]
                 nt == ActionValue(p.action, args)
             IN  \E fails \in (IF p.action \in grammar.fallible THEN BOOLEAN ELSE {FALSE}),
                    cut \in Truncate(states, k) :
                    IF fails
                    THEN /\ result' = Err(ActionError(p.action))
                         /\ pc' = "done"
                         /\ symbols' = rest
                         /\ UNCHANGED <<states, nonterminal>>
                    ELSE IF p.nonterminal = grammar.start_symbol
                    THEN /\ result' = Ok(nt)
                         /\ pc' = "done"
                         /\ symbols' = rest
                         /\ UNCHANGED <<states, nonterminal>>
                    ELSE IF ~cut.ok
                    THEN /\ Abort("attempt to subtract with overflow")
                         /\ symbols' = rest
                         /\ UNCHANGED <<states, nonterminal>>
                    ELSE /\ states' = cut.v
                         /\ symbols' = Append(rest,
                                <<start,
                                  [variant |-> variant_name_for_symbol(
                                                   Nonterminal(p.nonterminal)),
                                   data |-> nt],
                                  end>>)
                         /\ nonterminal' =
                                (CHOOSE i \in DOMAIN custom.all_nonterminals :
                                    custom.all_nonterminals[i] = p.nonterminal) - 1
                         /\ pc' = "goto"
                         /\ UNCHANGED result

ReduceBody_truncates_before_action(ls) ==
    /\ lookahead_start' = ls
    /\ IF ~reduce_arm(grammar, action).some
       THEN /\ Abort("invalid action code")
            /\ UNCHANGED <<states, symbols, nonterminal>>
       ELSE
        LET p == reduce_arm(grammar, action).v
            k == Len(p.symbols)
            n == Len(symbols)
            pop == FailingPop(symbols, p)
        IN  IF pop.j # 0
            THEN /\ Abort(pop.msg)
                 /\ symbols' = SubSeq(symbols, 1, n - (k - pop.j) - 1)
                 /\ UNCHANGED <<states, nonterminal>>
            ELSE
             LET syms == SubSeq(symbols, n - k + 1, n)
                 rest == SubSeq(symbols, 1, n - k)
                 start == IF k > 0 THEN syms[1][1]
                          ELSE IF rest # <<>> THEN Last(rest)[3]
                          ELSE DefaultLocation
                 end == IF k > 0 THEN syms[k][3]
                        ELSE IF ls.some THEN ls.v
                        ELSE start
                 args == IF k = 0 THEN <<start, end>>
                         ELSE [i \in 1..k |-> <<syms[i][1], syms[i][2].data, syms[i][3]>>]
                 nt == ActionValue(p.action, args)
             IN  \E fails \in (IF p.action \in grammar.fallible THEN BOOLEAN ELSE {FALSE}),
                    cut \in Truncate(states, k) :
                    IF fails
                    THEN /\ result' = Err(ActionError(p.action))
                         /\ pc' = "done"
                         /\ symbols' = rest
                         /\ states' = cut.v
                         /\ UNCHANGED nonterminal
                    ELSE IF p.nonterminal = grammar.start_symbol
                    THEN /\ result' = Ok(nt)
                         /\ pc' = "done"
                         /\ symbols' = rest
                         /\ UNCHANGED <<states, nonterminal>>
                    ELSE IF ~cut.ok
                    THEN /\ Abort("attempt to subtract with overflow")
                         /\ symbols' = rest
                         /\ UNCHANGED <<states, nonterminal>>
                    ELSE /\ states' = cut.v
                         /\ symbols' = Append(rest,
                                <<start,
                                  [variant |-> variant_name_for_symbol(
                                                   Nonterminal(p.nonterminal)),
                                   data |-> nt],
                                  end>>)
                         /\ nonterminal' =
                                (CHOOSE i \in DOMAIN custom.all_nonterminals :
                                    custom.all_nonterminals[i] = p.nonterminal) - 1
                         /\ pc' = "goto"
                         /\ UNCHANGED result

\* the body of the reduce function up to the GOTO lookup, called with
\* __lookahead_start = ls
ReduceBody(ls) ==
    /\ lookahead_start' = ls
    /\ IF ~reduce_arm(grammar, action).some
       THEN /\ Abort("invalid action code")
            /\ UNCHANGED <<states, symbols, nonterminal>>
       ELSE
        LET p == reduce_arm(grammar, action).v
            k == Len(p.symbols)
            n == Len(symbols)
            pop == FailingPop(symbols, p)
        IN  IF pop.j # 0
            THEN /\ Abort(pop.msg)
                 /\ symbols' = SubSeq(symbols, 1, n - (k - pop.j) - 1)
                 /\ UNCHANGED <<states, nonterminal>>
            ELSE
             LET syms == SubSeq(symbols, n - k + 1, n)
                 rest == SubSeq(symbols, 1, n - k)
                 start == IF k > 0 THEN syms[1][1]
                          ELSE IF rest # <<>> THEN Last(rest)[3]
                          ELSE DefaultLocation
                 end == IF k > 0 THEN syms[k][3]
                        ELSE IF ls.some THEN ls.v
                        ELSE start
                 args == IF k = 0 THEN <<start, end>>
                         ELSE [i \in 1..k |-> <<syms[i][1], syms[i][2].data, syms[i][3]>>]
                 nt == ActionValue(p.action, args)
             IN  \E fails \in (IF p.action \in grammar.fallible THEN BOOLEAN ELSE {FALSE}),
                    cut \in Truncate(states, k) :
                    IF fails
                    THEN /\ result' = Err(ActionError(p.action))
                         /\ pc' = "done"
                         /\ symbols' = rest
                         /\ UNCHANGED <<states, nonterminal>>
                    ELSE IF p.nonterminal = grammar.start_symbol
                    THEN /\ result' = Ok(nt)
                         /\ pc' = "done"
                         /\ symbols' = rest
                         /\ UNCHANGED <<states, nonterminal>>
                    ELSE IF ~cut.ok
                    THEN /\ Abort("attempt to subtract with overflow")
                         /\ symbols' = rest
                         /\ UNCHANGED <<states, nonterminal>>
                    ELSE /\ states' = cut.v
                         /\ symbols' = Append(rest,
                                <<start,
                                  [variant |-> variant_name_for_symbol(
                                                   Nonterminal(p.nonterminal)),
                                   data |-> nt],
                                  end>>)
                         /\ nonterminal' =
                                (CHOOSE i \in DOMAIN custom.all_nonterminals :
                                    custom.all_nonterminals[i] = p.nonterminal) - 1
                         /\ pc' = "goto"
                         /\ UNCHANGED result

\* } else if __action < 0 { if let Some(r) = __reduce(__action, Some(&__lookahead.0), ..)
reduce ==
    /\ pc = "dispatch"
    /\ action < 0
    /\ ReduceBody(Some(lookahead[1]))
    /\ UNCHANGED <<inputs, lr1, tables, pos, lookahead, integer, state, action,
                   goto_state, next_state, shifted>>

error_drops_token ==
    /\ pc = "dispatch"
    /\ action = 0
    /\ result' = Err(UnrecognizedToken(None, <<>>))
    /\ pc' = "done"
    /\ UNCHANGED <<inputs, lr1, tables, pos, states, symbols, lookahead, integer, state,
                   action, lookahead_start, nonterminal, goto_state, next_state,
                   shifted>>

error_then_next_token ==
    /\ pc = "dispatch"
    /\ action = 0
    /\ result' = Err(UnrecognizedToken(Some(lookahead), <<>>))
    /\ pc' = "shift"
    /\ UNCHANGED <<inputs, lr1, tables, pos, states, symbols, lookahead, integer, state,
                   action, lookahead_start, nonterminal, goto_state, next_state,
                   shifted>>

\* } else { return Err(UnrecognizedToken { token: Some(__lookahead), expected: vec![] }) }
error ==
    /\ pc = "dispatch"
    /\ action = 0
    /\ result' = Err(UnrecognizedToken(Some(lookahead), <<>>))
    /\ pc' = "done"
    /\ UNCHANGED <<inputs, lr1, tables, pos, states, symbols, lookahead, integer, state,
                   action, lookahead_start, nonterminal, goto_state, next_state,
                   shifted>>

goto_lookup_from_selected_state ==
    /\ pc = "goto"
    /\ IF states = <<>>
       THEN Abort("unwrap") /\ UNCHANGED <<goto_state, next_state>>
       ELSE LET cell == Index(GOTO,
                              goto_index(grammar, lr_states, state, nonterminal))
            IN  /\ goto_state' = state
                /\ IF cell.ok
                   THEN next_state' = cell.v - 1 /\ pc' = "push" /\ UNCHANGED result
                   ELSE Abort("index out of bounds") /\ UNCHANGED next_state
    /\ UNCHANGED <<inputs, lr1, tables, pos, states, symbols, lookahead, integer, state,
                   action, lookahead_start, nonterminal, shifted>>

goto_lookup_without_decrement ==
    /\ pc = "goto"
    /\ IF states = <<>>
       THEN Abort("unwrap") /\ UNCHANGED <<goto_state, next_state>>
       ELSE LET cell == Index(GOTO,
                              goto_index(grammar, lr_states, Last(states), nonterminal))
            IN  /\ goto_state' = Last(states)
                /\ IF Last(states) >= 0 /\ cell.ok
                   THEN next_state' = cell.v /\ pc' = "push" /\ UNCHANGED result
                   ELSE Abort("index out of bounds") /\ UNCHANGED next_state
    /\ UNCHANGED <<inputs, lr1, tables, pos, states, symbols, lookahead, integer, state,
                   action, lookahead_start, nonterminal, shifted>>

\* let __state = *__states.last().unwrap() as usize;
\* let __next_state = __GOTO[__state * N + __nonterminal] - 1;
goto_lookup ==
    /\ pc = "goto"
    /\ IF states = <<>>
       THEN Abort("unwrap") /\ UNCHANGED <<goto_state, next_state>>
       ELSE LET cell == Index(GOTO,
                              goto_index(grammar, lr_states, Last(states), nonterminal))
            IN  /\ goto_state' = Last(states)
                /\ IF Last(states) >= 0 /\ cell.ok
                   THEN next_state' = cell.v - 1 /\ pc' = "push" /\ UNCHANGED result
                   ELSE Abort("index out of bounds") /\ UNCHANGED next_state
    /\ UNCHANGED <<inputs, lr1, tables, pos, states, symbols, lookahead, integer, state,
                   action, lookahead_start, nonterminal, shifted>>

goto_push_then_next_token ==
    /\ pc = "push"
    /\ states' = Append(states, next_state)
    /\ pc' = IF lookahead_start.some THEN "shift" ELSE "eof"
    /\ UNCHANGED <<inputs, lr1, tables, pos, symbols, lookahead, integer, state, action,
                   lookahead_start, nonterminal, goto_state, next_state, result,
                   shifted>>

goto_push_forgotten ==
    /\ pc = "push"
    /\ states' = states
    /\ pc' = IF lookahead_start.some THEN "resolve" ELSE "eof"
    /\ UNCHANGED <<inputs, lr1, tables, pos, symbols, lookahead, integer, state, action,
                   lookahead_start, nonterminal, goto_state, next_state, result,
                   shifted>>

\* __states.push(__next_state); None
\* and back in the loop that called the reduce function
goto_push ==
    /\ pc = "push"
    /\ states' = Append(states, next_state)
    /\ pc' = IF lookahead_start.some THEN "resolve" ELSE "eof"
    /\ UNCHANGED <<inputs, lr1, tables, pos, symbols, lookahead, integer, state, action,
                   lookahead_start, nonterminal, goto_state, next_state, result,
                   shifted>>

\* the EOF loop: let __state = ..; let __action = __EOF_ACTION[__state];
load_eof_action ==
    /\ pc = "eof"
    /\ IF states = <<>>
       THEN Abort("unwrap") /\ UNCHANGED <<state, action>>
       ELSE LET cell == Index(EOF_ACTION, Last(states))
            IN  /\ state' = Last(states)
                /\ IF cell.ok
                   THEN action' = cell.v /\ pc' = "eof_dispatch" /\ UNCHANGED result
                   ELSE Abort("index out of bounds") /\ UNCHANGED action
    /\ UNCHANGED <<inputs, lr1, tables, pos, states, symbols, lookahead, integer,
                   lookahead_start, nonterminal, goto_state, next_state, shifted>>

\* if __action < 0 { if let Some(r) = __reduce(__action, None, ..) { return r; } }
eof_reduce ==
    /\ pc = "eof_dispatch"
    /\ action < 0
    /\ ReduceBody(None)
    /\ UNCHANGED <<inputs, lr1, tables, pos, lookahead, integer, state, action,
                   goto_state, next_state, shifted>>

eof_error_with_lookahead ==
    /\ pc = "eof_dispatch"
    /\ action >= 0
    /\ result' = Err(UnrecognizedToken(Some(lookahead), <<>>))
    /\ pc' = "done"
    /\ UNCHANGED <<inputs, lr1, tables, pos, states, symbols, lookahead, integer, state,
                   action, lookahead_start, nonterminal, goto_state, next_state,
                   shifted>>

eof_error_retries ==
    /\ pc = "eof_dispatch"
    /\ action >= 0
    /\ pc' = "eof"
    /\ UNCHANGED <<inputs, lr1, tables, pos, states, symbols, lookahead, integer, state,
                   action, lookahead_start, nonterminal, goto_state, next_state,
                   result, shifted>>

\* } else { return Err(UnrecognizedToken { token: None, expected: vec![] }) }
eof_error ==
    /\ pc = "eof_dispatch"
    /\ action >= 0
    /\ result' = Err(UnrecognizedToken(None, <<>>))
    /\ pc' = "done"
    /\ UNCHANGED <<inputs, lr1, tables, pos, states, symbols, lookahead, integer, state,
                   action, lookahead_start, nonterminal, goto_state, next_state,
                   shifted>>

Init ==
    /\ \E d \in ParserInputs : grammar = d[1] /\ lr_states = d[2]
    /\ input \in Streams(grammar)
    /\ custom = [all_nonterminals |-> <<>>, reduce_indices |-> <<>>]
    /\ ACTION_TABLE = <<>>
    /\ EOF_ACTION = <<>>
    /\ GOTO = <<>>
    /\ pc = "new"
    /\ DriverIdle
    /\ lr1 = NoClosure

Next ==
    \/ new_table_driven
    \/ write_parse_table
    \/ parse
    \/ next_token
    \/ classify
    \/ load_action
    \/ shift
    \/ reduce
    \/ error
    \/ goto_lookup
    \/ goto_push
    \/ load_eof_action
    \/ eof_reduce
    \/ eof_error

Spec == Init /\ [][Next]_vars

\* the generator and the parser function are sequential code that keeps
\* running: whenever a next statement exists, it is executed
FairSpec == Spec /\ WF_vars(Next)

-----------------------------------------------------------------------------
(* src/lr1/test.rs: the closure of LR(1) items, as the tests call it.      *)

\* the grammar of the test start_state
FooGrammar ==
    [terminals |-> <<"C", "D">>,
     nonterminals |->
        << [name |-> "A",
            productions |-> << Production("A", <<Nonterminal("B"), Terminal("C")>>, 0) >>],
           [name |-> "B",
            productions |-> << Production("B", <<Terminal("D")>>, 1),
                               Production("B", <<>>, 2) >>] >>,
     start_symbol |-> "A",
     fallible |-> {},
     intern_token |-> FALSE]

\* the grammar of the test start_state_1
Foo1Grammar ==
    [terminals |-> <<"B1", "C1">>,
     nonterminals |->
        << [name |-> "A",
            productions |-> << Production("A", <<Nonterminal("B"), Nonterminal("C")>>, 0) >>],
           [name |-> "B",
            productions |-> << Production("B", <<Terminal("B1")>>, 1),
                               Production("B", <<>>, 2) >>],
           [name |-> "C",
            productions |-> << Production("C", <<Terminal("C1")>>, 3),
                               Production("C", <<>>, 4) >>] >>,
     start_symbol |-> "A",
     fallible |-> {},
     intern_token |-> FALSE]

\* the grammar of the test expr_grammar1
ExprGrammar ==
    [terminals |-> <<"-", "N", "(", ")">>,
     nonterminals |->
        << [name |-> "S",
            productions |-> << Production("S", <<Nonterminal("E")>>, 0) >>],
           [name |-> "E",
            productions |-> << Production("E", <<Nonterminal("E"), Terminal("-"), Nonterminal("T")>>, 1),
                               Production("E", <<Nonterminal("T")>>, 2) >>],
           [name |-> "T",
            productions |-> << Production("T", <<Terminal("N")>>, 3),
                               Production("T", <<Terminal("("), Nonterminal("E"), Terminal(")")>>, 4) >>] >>,
     start_symbol |-> "S",
     fallible |-> {},
     intern_token |-> FALSE]

ClosureGrammars == {FooGrammar, Foo1Grammar, ExprGrammar}

\* the productions of nonterminal nt
productions_for(g, nt) ==
    UNION {Range(g.nonterminals[i].productions) :
              i \in {j \in DOMAIN g.nonterminals : g.nonterminals[j].name = nt}}

\* the nonterminals that derive the empty string
RECURSIVE nullable(_, _)
nullable(g, known) ==
    LET more == {nt \in Range(nonterminals_keys(g)) :
                    \E p \in productions_for(g, nt) :
                        \A i \in DOMAIN p.symbols :
                            /\ p.symbols[i].kind = "Nonterminal"
                            /\ p.symbols[i].id \in known}
    IN  IF more = known THEN known ELSE nullable(g, more)

\* the tokens a string of symbols can start with, `tail` being the tokens
\* that can follow it, first being the first sets known so far
RECURSIVE first_of(_, _, _, _)
first_of(g, first, symbols_, tail) ==
    IF symbols_ = <<>> THEN tail
    ELSE LET s == Head(symbols_)
         IN  IF s.kind = "Terminal" THEN {TokenTerminal(s.id)}
             ELSE first[s.id] \cup
                  (IF s.id \in nullable(g, {})
                   THEN first_of(g, first, Tail(symbols_), tail)
                   ELSE {})

\* the first sets of the nonterminals
RECURSIVE first_sets(_, _)
first_sets(g, first) ==
    LET more == [nt \in Range(nonterminals_keys(g)) |->
                    UNION {first_of(g, first, p.symbols, {}) :
                              p \in productions_for(g, nt)}]
    IN  IF more = first THEN first ELSE first_sets(g, more)

\* the items one step of the closure adds for item it
closure_step(g, it) ==
    LET p == it.production
        first == first_sets(g, [nt \in Range(nonterminals_keys(g)) |-> {}])
    IN  IF it.index < Len(p.symbols) /\ p.symbols[it.index + 1].kind = "Nonterminal"
        THEN {Item(q, 0, t) :
                 q \in productions_for(g, p.symbols[it.index + 1].id),
                 t \in first_of(g, first,
                                SubSeq(p.symbols, it.index + 2, Len(p.symbols)),
                                {it.lookahead})}
        ELSE {}

\* lr1.transitive_closure(items)
RECURSIVE transitive_closure(_, _)
transitive_closure(g, its) ==
    LET more == its \cup UNION {closure_step(g, it) : it \in its}
    IN  IF more = its THEN its ELSE transitive_closure(g, more)

\* lr1.items(nonterminal, index, la)
lr1_items(g, nt, index, la) ==
    {Item(p, index, la) : p \in productions_for(g, nt)}

items_without_closure(g, nt, index, la) == lr1_items(g, nt, index, la)

\* fn items(grammar, nonterminal, index, la) of the tests
items(g, nt, index, la) ==
    transitive_closure(g, lr1_items(g, nt, index, la))

\* the tokens of grammar g
Tokens(g) == {TokenEOF} \cup {TokenTerminal(t) : t \in Range(g.terminals)}

\* the calls of `items`: a nonterminal, a position of the dot that every
\* production of the nonterminal has, and a lookahead
ItemsCalls(g) ==
    UNION {{[nonterminal |-> p.nonterminal, index |-> i, lookahead |-> la,
             items |-> {}] : i \in 0..Len(p.symbols), la \in Tokens(g)} :
           p \in Range(flat_map(g.nonterminals))}

\* let items = lr1.transitive_closure(lr1.items(nt(nonterminal), index, la));
items_call ==
    /\ pc = "items"
    /\ lr1' = [lr1 EXCEPT !.items =
                   items(grammar, lr1.nonterminal, lr1.index, lr1.lookahead)]
    /\ pc' = "closed"
    /\ UNCHANGED <<inputs, tables, driver>>

ClosureInit ==
    /\ grammar \in ClosureGrammars
    /\ lr_states = <<>>
    /\ input = <<>>
    /\ custom = [all_nonterminals |-> <<>>, reduce_indices |-> <<>>]
    /\ ACTION_TABLE = <<>>
    /\ EOF_ACTION = <<>>
    /\ GOTO = <<>>
    /\ pc = "items"
    /\ DriverIdle
    /\ lr1 \in {c \in ItemsCalls(grammar) :
                    \A p \in productions_for(grammar, c.nonterminal) :
                        c.index <= Len(p.symbols)}

ClosureNext == items_call

SpecClosure == ClosureInit /\ [][ClosureNext]_vars

-----------------------------------------------------------------------------
(* Properties of the reduce index map and of the emitted tables.           *)

NumStates == Len(lr_states)
NumTerminals == Len(grammar.terminals)
NumNonterminals == Len(grammar.nonterminals)
NumProductions == Len(flat_map(grammar.nonterminals))

IndexBuilt == pc # "new"
TablesWritten == pc \notin {"new", "write"}

\* state s of the automaton, terminal t and nonterminal n of the grammar, 0-based
StateAt(s) == lr_states[s + 1]
TerminalAt(t) == grammar.terminals[t + 1]
NonterminalAt(n) == grammar.nonterminals[n + 1].name

\* position of production p in the traversal nonterminals in order, then productions
DeclIndex(p) ==
    (CHOOSE i \in 1..NumProductions : flat_map(grammar.nonterminals)[i] = p) - 1

\* the reduce code expected for token tok in state st: the first entry of
\* st.reductions whose lookahead set contains tok decides, 0 if there is none
HasMatch(st, tok) == \E i \in DOMAIN st.reductions : tok \in st.reductions[i][1]

FirstMatch(st, tok) ==
    CHOOSE i \in DOMAIN st.reductions :
        /\ tok \in st.reductions[i][1]
        /\ \A j \in 1..(i - 1) : tok \notin st.reductions[j][1]

ExpectedReduce(st, tok) ==
    IF HasMatch(st, tok)
    THEN -(custom.reduce_indices[st.reductions[FirstMatch(st, tok)][2]] + 1)
    ELSE 0

ExpectedAction(st, term) ==
    IF term \in DOMAIN st.shifts THEN st.shifts[term] + 1
    ELSE ExpectedReduce(st, TokenTerminal(term))

ExpectedGoto(st, nt) ==
    IF nt \in DOMAIN st.gotos THEN st.gotos[nt] + 1 ELSE 0

\* C1: shift priority.  For every state s and terminal t, if s has a shift
\* edge for t to state g then ACTION[s*T+t] = g+1 > 0, also when reductions of
\* s have t in their lookahead set.
C1_ShiftPriority ==
    TablesWritten =>
        \A s \in 0..(NumStates - 1), t \in 0..(NumTerminals - 1) :
            TerminalAt(t) \in DOMAIN StateAt(s).shifts =>
                /\ s * NumTerminals + t + 1 \in DOMAIN ACTION_TABLE
                /\ ACTION_TABLE[s * NumTerminals + t + 1] = StateAt(s).shifts[TerminalAt(t)] + 1
                /\ ACTION_TABLE[s * NumTerminals + t + 1] > 0

\* a written table of a state that has both a shift edge for a terminal and a
\* reduction whose lookahead set contains that terminal
C1_Witness ==
    /\ TablesWritten
    /\ \E s \in 0..(NumStates - 1), t \in 0..(NumTerminals - 1) :
        /\ TerminalAt(t) \in DOMAIN StateAt(s).shifts
        /\ HasMatch(StateAt(s), TokenTerminal(TerminalAt(t)))
        /\ ACTION_TABLE[s * NumTerminals + t + 1] > 0

\* C2: first-match reduce selection.  For every state s and every token that
\* is a terminal without a shift edge in s, or EOF, the ACTION / EOF_ACTION
\* entry is -(reduce_index(p)+1) for the production p of the first entry of
\* s's reductions whose lookahead set contains the token, and 0 if no entry's
\* lookahead set contains it.
C2_FirstMatchReduce ==
    TablesWritten =>
        \A s \in 0..(NumStates - 1) :
            /\ s + 1 \in DOMAIN EOF_ACTION
            /\ EOF_ACTION[s + 1] = ExpectedReduce(StateAt(s), TokenEOF)
            /\ \A t \in 0..(NumTerminals - 1) :
                TerminalAt(t) \notin DOMAIN StateAt(s).shifts =>
                    /\ s * NumTerminals + t + 1 \in DOMAIN ACTION_TABLE
                    /\ ACTION_TABLE[s * NumTerminals + t + 1] =
                           ExpectedReduce(StateAt(s), TokenTerminal(TerminalAt(t)))

\* a written table of a state, without a shift edge for a terminal, whose
\* reductions hold two entries for different productions that both match it,
\* and a state two of whose reductions for different productions match EOF
C2_Witness ==
    /\ TablesWritten
    /\ \E s \in 0..(NumStates - 1), t \in 0..(NumTerminals - 1) :
        /\ TerminalAt(t) \notin DOMAIN StateAt(s).shifts
        /\ \E i, j \in DOMAIN StateAt(s).reductions :
            /\ i < j
            /\ TokenTerminal(TerminalAt(t)) \in StateAt(s).reductions[i][1]
            /\ TokenTerminal(TerminalAt(t)) \in StateAt(s).reductions[j][1]
            /\ TokenEOF \in StateAt(s).reductions[i][1]
            /\ TokenEOF \in StateAt(s).reductions[j][1]
            /\ StateAt(s).reductions[i][2] # StateAt(s).reductions[j][2]
        /\ ACTION_TABLE[s * NumTerminals + t + 1] < 0
        /\ EOF_ACTION[s + 1] < 0

\* C3: table shape.  ACTION has exactly S*T entries, EOF_ACTION exactly S and
\* GOTO exactly S*N, in state-major order with the columns in grammar order:
\* the entry of state s and the t-th terminal is ACTION[s*T+t], the entry of
\* state s is EOF_ACTION[s], the entry of state s and the n-th nonterminal is
\* GOTO[s*N+n].
C3_TableShape ==
    TablesWritten =>
        /\ Len(ACTION_TABLE) = NumStates * NumTerminals
        /\ Len(EOF_ACTION) = NumStates
        /\ Len(GOTO) = NumStates * NumNonterminals
        /\ \A s \in 0..(NumStates - 1) :
            /\ EOF_ACTION[s + 1] = ExpectedReduce(StateAt(s), TokenEOF)
            /\ \A t \in 0..(NumTerminals - 1) :
                ACTION_TABLE[s * NumTerminals + t + 1] =
                    ExpectedAction(StateAt(s), TerminalAt(t))
            /\ \A n \in 0..(NumNonterminals - 1) :
                GOTO[s * NumNonterminals + n + 1] =
                    ExpectedGoto(StateAt(s), NonterminalAt(n))

\* written tables of an automaton of at least two states whose rows differ,
\* for a grammar where the numbers of terminals and nonterminals differ
C3_Witness ==
    /\ TablesWritten
    /\ NumStates >= 2
    /\ NumTerminals # NumNonterminals
    /\ SubSeq(ACTION_TABLE, 1, NumTerminals) #
           SubSeq(ACTION_TABLE, NumTerminals + 1, 2 * NumTerminals)
    /\ SubSeq(GOTO, 1, NumNonterminals) #
           SubSeq(GOTO, NumNonterminals + 1, 2 * NumNonterminals)

ValidCode(e) ==
    \/ e = 0
    \/ e > 0 /\ e - 1 \in 0..(NumStates - 1)
    \/ e < 0 /\ (-e) - 1 \in 0..(NumProductions - 1)

\* C4: encoding validity.  Every entry e of ACTION and EOF_ACTION is 0, or
\* positive with e-1 a valid state index, or negative with -e-1 a valid
\* production index; EOF_ACTION entries are never positive.
C4_EncodingValid ==
    TablesWritten =>
        /\ \A i \in DOMAIN ACTION_TABLE : ValidCode(ACTION_TABLE[i])
        /\ \A i \in DOMAIN EOF_ACTION : ValidCode(EOF_ACTION[i]) /\ EOF_ACTION[i] <= 0

\* written tables where ACTION holds a shift to the last state, a reduce of
\* the last production and an error, and EOF_ACTION holds a reduce
C4_Witness ==
    /\ TablesWritten
    /\ \E i \in DOMAIN ACTION_TABLE : ACTION_TABLE[i] = NumStates
    /\ \E i \in DOMAIN ACTION_TABLE : ACTION_TABLE[i] = -NumProductions
    /\ \E i \in DOMAIN ACTION_TABLE : ACTION_TABLE[i] = 0
    /\ \E i \in DOMAIN EOF_ACTION : EOF_ACTION[i] < 0

\* C5: GOTO cell content.  For every state s and the n-th nonterminal,
\* GOTO[s*N+n] = g+1 if s has a goto edge on it to state g and 0 otherwise;
\* GOTO entries are never negative.
C5_GotoCell ==
    TablesWritten =>
        /\ \A s \in 0..(NumStates - 1), n \in 0..(NumNonterminals - 1) :
            /\ s * NumNonterminals + n + 1 \in DOMAIN GOTO
            /\ GOTO[s * NumNonterminals + n + 1] =
                   (IF NonterminalAt(n) \in DOMAIN StateAt(s).gotos
                    THEN StateAt(s).gotos[NonterminalAt(n)] + 1
                    ELSE 0)
        /\ \A i \in DOMAIN GOTO : GOTO[i] >= 0

\* a written GOTO table of a state with a goto edge to state 0 on one
\* nonterminal and no goto edge on another
C5_Witness ==
    /\ TablesWritten
    /\ \E s \in 0..(NumStates - 1), n, m \in 0..(NumNonterminals - 1) :
        /\ NonterminalAt(n) \in DOMAIN StateAt(s).gotos
        /\ StateAt(s).gotos[NonterminalAt(n)] = 0
        /\ NonterminalAt(m) \notin DOMAIN StateAt(s).gotos
        /\ GOTO[s * NumNonterminals + n + 1] = 1
        /\ GOTO[s * NumNonterminals + m + 1] = 0

\* C6: the reduce index map is total on the grammar's productions, injective,
\* onto 0..P-1, and gives the i-th production of the traversal (nonterminals
\* in grammar order, then each one's productions in order) the index i.
C6_ReduceIndexer ==
    IndexBuilt =>
        LET all == flat_map(grammar.nonterminals)
            map == custom.reduce_indices
        IN  /\ DOMAIN map = Range(all)
            /\ \A p, q \in DOMAIN map : map[p] = map[q] => p = q
            /\ {map[p] : p \in DOMAIN map} = 0..(NumProductions - 1)
            /\ \A i \in 1..NumProductions : map[all[i]] = i - 1

\* the map built for a grammar in which a nonterminal other than the first
\* has a production, so that the index runs on across nonterminals
C6_Witness ==
    /\ IndexBuilt
    /\ NumNonterminals >= 2
    /\ \E p \in DOMAIN custom.reduce_indices :
        /\ p.nonterminal # grammar.nonterminals[1].name
        /\ custom.reduce_indices[p] = NumProductions - 1
        /\ custom.reduce_indices[p] >= 2

-----------------------------------------------------------------------------
(* Properties of the generated parser.                                     *)

\* the production the table builder selects for token tok in state st
SelectedProduction(st, tok) == st.reductions[FirstMatch(st, tok)][2]

\* the token the running reduction was looked up with
ReduceToken ==
    IF lookahead_start.some THEN TokenTerminal(TerminalAt(integer)) ELSE TokenEOF

\* C7: reduce-index agreement.  For every production p, the code -(i+1) the
\* table builder writes for p is dispatched by the reduce function to the arm
\* of p: every negative entry of ACTION and of EOF_ACTION selects the arm of
\* the production first matching in that state, and a reduction the parser
\* runs for a table entry pushes the value of that production's action,
\* tagged as that production's nonterminal.
C7_ReduceIndexAgreement ==
    TablesWritten =>
        /\ \A p \in Range(flat_map(grammar.nonterminals)) :
            /\ p \in DOMAIN custom.reduce_indices
            /\ reduce_arm(grammar, -(custom.reduce_indices[p] + 1)) = Some(p)
        /\ \A s \in 0..(NumStates - 1) :
            /\ EOF_ACTION[s + 1] < 0 =>
                /\ HasMatch(StateAt(s), TokenEOF)
                /\ reduce_arm(grammar, EOF_ACTION[s + 1]) =
                       Some(SelectedProduction(StateAt(s), TokenEOF))
            /\ \A t \in 0..(NumTerminals - 1) :
                ACTION_TABLE[s * NumTerminals + t + 1] < 0 =>
                    /\ HasMatch(StateAt(s), TokenTerminal(TerminalAt(t)))
                    /\ reduce_arm(grammar, ACTION_TABLE[s * NumTerminals + t + 1]) =
                           Some(SelectedProduction(StateAt(s), TokenTerminal(TerminalAt(t))))
        /\ pc = "goto" =>
            /\ HasMatch(StateAt(state), ReduceToken)
            /\ symbols # <<>>
            /\ Last(symbols)[2].data.action =
                   SelectedProduction(StateAt(state), ReduceToken).action
            /\ Last(symbols)[2].variant =
                   "Nt" \o SelectedProduction(StateAt(state), ReduceToken).nonterminal

\* the reduce function has run, in the EOF loop, the arm of a production
\* other than the first, whose code stands in ACTION as well as in EOF_ACTION
C7_Witness ==
    /\ pc = "goto"
    /\ ~lookahead_start.some
    /\ action < -1
    /\ \E i \in DOMAIN ACTION_TABLE : ACTION_TABLE[i] = action
    /\ \E i \in DOMAIN EOF_ACTION : EOF_ACTION[i] = action
    /\ Last(symbols)[2].data.action = flat_map(grammar.nonterminals)[-action].action

Resolving ==
    \/ pc \in {"classify", "resolve", "dispatch"}
    \/ pc \in {"goto", "push"} /\ lookahead_start.some

\* the parser state in the EOF loop
Draining ==
    \/ pc \in {"eof", "eof_dispatch"}
    \/ pc \in {"goto", "push"} /\ ~lookahead_start.some

\* the first n items of the token stream are tokens, and are `toks`
Pulled(n, toks) ==
    /\ n \in 0..Len(input)
    /\ \A i \in 1..n : input[i].item = "Ok"
    /\ toks = [i \in 1..n |-> input[i].v]

\* lalrpop_util::ParseError::UnrecognizedEOF, as the specification names it
UnrecognizedEOF == [error |-> "UnrecognizedEOF"]

EofStep(failure) ==
    /\ pc = "eof" => pc' = "done" \/ action' = EOF_ACTION[Last(states) + 1]
    /\ pc = "eof_dispatch" /\ action >= 0 =>
        /\ pc' = "done"
        /\ result' = Err(failure)
        /\ UNCHANGED <<states, symbols, pos>>

EmptyStreamCase(failure) ==
    (/\ pc = "done"
     /\ input = <<>>
     /\ ~HasMatch(StateAt(0), TokenEOF)) => result = Err(failure)

C10_EagerReduction ==
    /\ Resolving =>
        /\ pos >= 1
        /\ Pulled(pos - 1, shifted)
        /\ input[pos].item = "Ok"
        /\ lookahead = input[pos].v
    /\ pc = "shift" => Pulled(pos, shifted)
    /\ Draining => pos = Len(input) /\ Pulled(pos, shifted)
    /\ pc = "dispatch" =>
        /\ state = Last(states)
        /\ token_to_integer(grammar, lookahead) = Some(integer)
        /\ action = ACTION_TABLE[state * NumTerminals + integer + 1]

\* the fourth token is about to be shifted after reductions were made with
\* it as the lookahead
C10_Witness ==
    /\ pc = "dispatch"
    /\ action > 0
    /\ pos = 4
    /\ lookahead_start = Some(lookahead[1])
    /\ Len(shifted) = 3
    /\ Len(states) < 4

\* the ACTION entry for (top of the state stack, terminal of the lookahead)
ActionCell == ACTION_TABLE[Last(states) * NumTerminals + integer + 1]

\* the step taken when the entry for the lookahead is a positive n
ShiftStep ==
    (pc = "dispatch" /\ ActionCell > 0) =>
        /\ states' = Append(states, ActionCell - 1)
        /\ symbols' = Append(symbols,
                <<lookahead[1],
                  [variant |-> variant_name_for_symbol(
                                   Terminal(TerminalAt(integer))),
                   data |-> [tok |-> lookahead[2]]],
                  lookahead[3]>>)
        /\ pc' = "shift"
        /\ UNCHANGED <<pos, result>>

\* the step taken from the head of the shift loop: the next item of the
\* stream is pulled, or the loop is left for the EOF loop at end of input
PullStep ==
    pc = "shift" =>
        /\ UNCHANGED <<states, symbols>>
        /\ \/ pos < Len(input) /\ pos' = pos + 1
           \/ pos = Len(input) /\ pos' = pos /\ pc' = "eof"

\* C11: shift transition.  The parser starts with the state stack [0] and an
\* empty value stack; when the ACTION entry for (top state, lookahead
\* terminal) is a positive n it pushes n-1 on the state stack and the
\* lookahead's (start, tagged terminal value, end) triple on the value stack,
\* changes nothing else on either stack, and goes on to pull the next token.
C11_ShiftTransition ==
    /\ [](pc = "shift" /\ pos = 0 => states = <<0>> /\ symbols = <<>>)
    /\ [][(pc = "parse" => states' = <<0>> /\ symbols' = <<>> /\ pc' = "shift")
          /\ ShiftStep /\ PullStep]_vars

\* a second token has been shifted, into a state other than 0 and 1, on top
\* of a stack that reductions have changed since the first shift
C11_Witness ==
    /\ pc = "shift"
    /\ Len(shifted) = 2
    /\ Len(states) = 3
    /\ Last(states) > 1
    /\ states[2] # states[3]
    /\ Last(symbols) = <<3, [variant |-> "Term" \o Escape(shifted[2][2]),
                             data |-> [tok |-> shifted[2][2]]], 4>>
    /\ symbols[1][2].variant = "Nt" \o Escape(NonterminalAt(0))

\* the step taken when the entry for the lookahead is 0
TableErrorStep ==
    (pc = "dispatch" /\ ActionCell = 0) =>
        /\ pc' = "done"
        /\ result' = Err(UnrecognizedToken(Some(input[pos].v), <<>>))
        /\ UNCHANGED <<states, symbols, pos, shifted>>

\* the parse has ended on a token that a terminal pattern matches
TableError ==
    /\ result.tag = "Err"
    /\ result.e = UnrecognizedToken(Some(lookahead), <<>>)
    /\ token_to_integer(grammar, lookahead).some

\* C12: table error on a token.  When the ACTION entry for (top state,
\* lookahead terminal) is 0 the parse ends with UnrecognizedToken carrying
\* exactly the offending lookahead token, locations included, and an empty
\* expected list; the token is not shifted, nothing is reduced and no further
\* token is pulled.
C12_TableError ==
    /\ [][TableErrorStep]_vars
    /\ [](TableError =>
            /\ pc = "done"
            /\ ActionCell = 0
            /\ lookahead = input[pos].v
            /\ Pulled(pos - 1, shifted))

\* the third token of a stream has met a 0 entry after the first two were
\* shifted and a reduction was made
C12_Witness ==
    /\ pc = "done"
    /\ TableError
    /\ pos = 3
    /\ pos < Len(input)
    /\ Len(shifted) = 2
    /\ lookahead = <<5, TerminalAt(integer), 6>>
    /\ symbols[1][2].variant = "Nt" \o Escape(NonterminalAt(0))

\* the indexes, in grammar order, of the terminals whose pattern matches the
\* lookahead
MatchingTerminals ==
    {t \in 0..(NumTerminals - 1) : pattern_matches(TerminalAt(t), lookahead[2])}

\* the step that classifies the lookahead
ClassifyStep ==
    pc = "classify" =>
        /\ UNCHANGED <<states, symbols, pos, state, action, shifted>>
        /\ MatchingTerminals = {} =>
                /\ pc' = "done"
                /\ result' = Err(UnrecognizedToken(Some(input[pos].v), <<>>))
        /\ MatchingTerminals # {} =>
                /\ pc' = "resolve"
                /\ integer' \in MatchingTerminals
                /\ \A t \in MatchingTerminals : integer' <= t
                /\ result' = NoResult

\* C13: classification error.  A token that matches no terminal pattern ends
\* the parse with Err(UnrecognizedToken) carrying that token, before any ACTION
\* lookup is made for it and with both stacks as they were; a token that
\* matches is mapped to the index of its terminal in grammar order, a number
\* in 0..num_terminals-1, which is the index every later ACTION lookup for
\* that token uses.
C13_Classification ==
    /\ [][ClassifyStep]_vars
    /\ [](pc \in {"resolve", "dispatch"} =>
            /\ integer \in 0..(NumTerminals - 1)
            /\ TerminalAt(integer) = lookahead[2])

\* the second item of a stream is a token no terminal pattern matches: the
\* parse has ended on it, the first token still on the stacks
C13_Witness ==
    /\ pc = "done"
    /\ pos = 2
    /\ pos < Len(input)
    /\ MatchingTerminals = {}
    /\ result = Err(UnrecognizedToken(Some(<<3, "?", 4>>), <<>>))
    /\ Len(shifted) = 1
    /\ Len(states) = 2
    /\ Len(symbols) = 1

\* the error the parse returns for the error e of the token stream
Propagated(e) == IF grammar.intern_token THEN Err(e) ELSE Err(User(e))

\* the step taken when the next item of the stream is an error
StreamErrorStep ==
    (pc = "shift" /\ pos < Len(input) /\ input[pos + 1].item = "Err") =>
        /\ pc' = "done"
        /\ result' = Propagated(input[pos + 1].error)
        /\ UNCHANGED <<states, symbols, lookahead, integer, state, action,
                       lookahead_start, nonterminal, goto_state, next_state,
                       shifted>>

\* C14: stream error propagation.  When the token stream yields an error the
\* parse returns at once with that error, wrapped as ParseError::User { error }
\* when the token source is external and unchanged when the tokenizer is a
\* generated one; no table is read, nothing is shifted or reduced for that
\* item, and the reductions the EOF loop would make are not run.
C14_StreamError ==
    /\ [][StreamErrorStep]_vars
    /\ [](pos >= 1 /\ input[pos].item = "Err" =>
            /\ pc = "done"
            /\ result = Propagated(input[pos].error)
            /\ Pulled(pos - 1, shifted))

\* an external token source has failed on its second item while the top
\* state had a reduction to make at end of input
C14_Witness ==
    /\ pc = "done"
    /\ ~grammar.intern_token
    /\ pos = 2
    /\ pos < Len(input)
    /\ input[pos].item = "Err"
    /\ result = Err(User([raised_at |-> 2]))
    /\ Len(shifted) = 1
    /\ Len(symbols) = 1
    /\ EOF_ACTION[Last(states) + 1] < 0

\* the parse has failed
Failed == result.tag = "Err"

\* a step of the parser is about to fail: the stream yields an error, no
\* terminal pattern matches the lookahead, the ACTION entry is 0, or the
\* EOF_ACTION entry is not negative
FailingStep ==
    \/ pc = "shift" /\ pos < Len(input) /\ input[pos + 1].item = "Err"
    \/ pc = "classify" /\ MatchingTerminals = {}
    \/ pc = "dispatch" /\ ActionCell = 0
    \/ pc = "eof_dispatch" /\ EOF_ACTION[Last(states) + 1] >= 0

\* a fallible action has returned an error in this step
ActionFailed ==
    /\ pc \in {"dispatch", "eof_dispatch"}
    /\ action < 0
    /\ result' = Err(ActionError(flat_map(grammar.nonterminals)[-action].action))

\* C15: every failure is final.  Once a step of the parser fails (stream
\* error, classification error, zero ACTION entry, non-negative EOF_ACTION
\* entry, error of a fallible action) the result of the parse is that error
\* and no later step occurs: no token is pulled, no table is read, neither
\* stack changes, and the result never becomes a success or another error.
C15_FailureIsFinal ==
    /\ [](Failed => pc = "done")
    /\ [][(FailingStep \/ ActionFailed) => Failed' /\ pc' = "done"]_vars
    /\ [][Failed => UNCHANGED vars]_vars

\* a fallible action has failed in the token loop, with items of the stream
\* not yet pulled and an entry left on the state stack to act on
C15_Witness ==
    /\ pc = "done"
    /\ Failed
    /\ action < 0
    /\ result.e = ActionError(flat_map(grammar.nonterminals)[-action].action)
    /\ lookahead_start.some
    /\ pos < Len(input)
    /\ input[pos + 1].item = "Ok"
    /\ Len(states) >= 2

\* the one-token stream ["a"], spanning the locations 1 .. 2
StreamA == <<StreamItem(1, "a")>>

\* what the action of S -> "a" makes of that token
S_value == ActionValue(0, << <<1, [tok |-> "a"], 2>> >>)

\* C16: end-to-end scenario 1.  For the grammar with the one terminal "a" and
\* the start nonterminal S = "a", with the two-state automaton (state 0 shifts
\* "a" to state 1; state 1 reduces S -> "a" on EOF), the emitted tables are
\* ACTION = [2, 0] and EOF_ACTION = [0, -1], and the parse of the stream ["a"]
\* followed by end of input returns Ok of the value S's action produced.
C16_Scenario1 ==
    (grammar = SingleGrammar /\ lr_states = SingleStates) =>
        /\ TablesWritten =>
            /\ ACTION_TABLE = <<2, 0>>
            /\ EOF_ACTION = <<0, -1>>
        /\ (pc = "done" /\ input = StreamA) =>
            /\ result = Ok(S_value)
            /\ pos = 1
            /\ shifted = <<input[1].v>>

\* the parse of ["a"] has ended, after the shift of "a" into state 1 and the
\* reduction of S -> "a" in the EOF loop
C16_Witness ==
    /\ grammar = SingleGrammar
    /\ lr_states = SingleStates
    /\ input = StreamA
    /\ pc = "done"
    /\ states = <<0, 1>>
    /\ action = -1
    /\ ~lookahead_start.some
    /\ result.tag = "Ok"

\* C17: variant naming never collides across kinds.  For every terminal t and
\* every nonterminal n of a grammar the variant of t in the __Symbol enum has
\* another name than the variant of n, also when t and n have the same
\* identifier; the name of a variant is the prefix of its kind, "Term" or
\* "Nt", followed by the escaped identifier, so the same symbol always gets
\* the same name.
C17_VariantNames ==
    LET variants == write_value_type_defn(grammar)
    IN  /\ Len(variants) = NumTerminals + NumNonterminals
        /\ \A t \in 1..NumTerminals, n \in 1..NumNonterminals :
                variants[t] # variants[NumTerminals + n]
        /\ \A t \in 1..NumTerminals :
                variants[t] = "Term" \o Escape(TerminalAt(t - 1))
        /\ \A n \in 1..NumNonterminals :
                variants[NumTerminals + n] = "Nt" \o Escape(NonterminalAt(n - 1))
        /\ \A i \in DOMAIN symbols : \E v \in DOMAIN variants :
                symbols[i][2].variant = variants[v]

\* the value stack holds a nonterminal and, on top of it, a terminal of the
\* same identifier, under the two variants of that identifier
C17_Witness ==
    /\ Len(symbols) = 2
    /\ \E t \in 0..(NumTerminals - 1), n \in 0..(NumNonterminals - 1) :
        /\ TerminalAt(t) = NonterminalAt(n)
        /\ symbols[1][2].variant = "Nt" \o NonterminalAt(n)
        /\ symbols[2][2].variant = "Term" \o TerminalAt(t)
        /\ symbols[1][2].variant # symbols[2][2].variant

\* the reduce function is about to be called with a negative entry
Reducing == pc \in {"dispatch", "eof_dispatch"} /\ action < 0

\* the production of the arm the reduce function runs
ReducedProduction == flat_map(grammar.nonterminals)[-action]

\* seq without its last k entries
DropLast(seq, k) == SubSeq(seq, 1, Len(seq) - k)

\* the steps of one call of the reduce function, k being the number of
\* symbols of the production
ReductionSteps ==
    LET k == Len(ReducedProduction.symbols)
    IN  /\ (Reducing /\ pc' = "goto") =>
            /\ ReducedProduction.nonterminal # grammar.start_symbol
            /\ k <= Len(symbols) /\ k < Len(states)
            /\ Len(symbols') = Len(symbols) - k + 1
            /\ DropLast(symbols', 1) = DropLast(symbols, k)
            /\ states' = DropLast(states, k)
        /\ (Reducing /\ ReducedProduction.nonterminal # grammar.start_symbol) =>
            pc' = "goto" \/ result'.tag = "Err"
        /\ pc = "goto" => pc' = "push" /\ UNCHANGED <<states, symbols>>
        /\ pc = "push" =>
            /\ pc' \in {"resolve", "eof"}
            /\ Len(states') = Len(states) + 1
            /\ DropLast(states', 1) = states
            /\ UNCHANGED symbols
        /\ (Reducing /\ ReducedProduction.nonterminal = grammar.start_symbol) =>
            /\ pc' = "done"
            /\ UNCHANGED states
            /\ symbols' = DropLast(symbols, k)

\* C18: stack balance of a reduction.  A completed reduction of a production
\* with k symbols whose nonterminal is not the start symbol pops exactly k
\* values and pushes exactly 1 on the value stack, and removes exactly k
\* entries and pushes exactly 1 on the state stack (net change 1-k on each);
\* the entries below the removed k stay as they were, so the state stack is
\* one longer than the value stack between reductions.  A reduction of a
\* production of the start symbol pushes nothing on either stack and returns.
C18_StackBalance ==
    /\ [][ReductionSteps]_vars
    /\ [](pc \in {"shift", "classify", "resolve", "dispatch", "eof", "eof_dispatch"}
            => Len(states) = Len(symbols) + 1)
    /\ [](pc \in {"goto", "push"} => Len(states) = Len(symbols))

\* a production of three symbols has been reduced: the three states above
\* state 0 are gone, one value stands for the three that were popped, and the
\* state to go to has been looked up
C18_Witness ==
    /\ pc = "push"
    /\ action < 0
    /\ Len(ReducedProduction.symbols) = 3
    /\ Len(shifted) = 3
    /\ states = <<0>>
    /\ Len(symbols) = 1
    /\ symbols[1][1] = 1
    /\ symbols[1][3] = 6

\* the steps from the end of an arm of the reduce function to the push of the
\* new top state
GotoSteps ==
    LET k == Len(ReducedProduction.symbols)
    IN  /\ (Reducing /\ pc' = "goto") =>
            /\ Last(states') = states[Len(states) - k]
            /\ nonterminal' \in 0..(NumNonterminals - 1)
            /\ NonterminalAt(nonterminal') = ReducedProduction.nonterminal
        /\ pc = "goto" =>
            /\ goto_state' = Last(states)
            /\ next_state' = GOTO[Last(states) * NumNonterminals + nonterminal + 1] - 1
            /\ UNCHANGED <<states, nonterminal>>
        /\ pc = "push" =>
            /\ states' = Append(states, next_state)
            /\ next_state =
                   GOTO[Last(states) * NumNonterminals + nonterminal + 1] - 1

\* C19: goto after reduce.  For a production of a nonterminal A other than
\* the start symbol, with k symbols, the new top state pushed is
\* GOTO[q*num_nonterminals + index(A)] - 1, q being the state on top of the
\* state stack once the k consumed states are truncated (not the state that
\* was on top when the reduction was selected) and index(A) the position of A
\* in the grammar's order of nonterminals; it is the state the automaton goes
\* to from q on A.
C19_GotoAfterReduce ==
    /\ [][GotoSteps]_vars
    /\ [](pc = "push" =>
            /\ goto_state = Last(states)
            /\ NonterminalAt(nonterminal) \in DOMAIN StateAt(goto_state).gotos
            /\ next_state = StateAt(goto_state).gotos[NonterminalAt(nonterminal)])

\* the state to go to has been looked up in the row of a state q that is
\* neither state 0 nor the state the reduction was selected in, in the column
\* of another nonterminal than the first
C19_Witness ==
    /\ pc = "push"
    /\ action < 0
    /\ Len(ReducedProduction.symbols) >= 1
    /\ goto_state = Last(states)
    /\ goto_state > 0
    /\ goto_state # state
    /\ nonterminal > 0
    /\ next_state > 0
    /\ GOTO[state * NumNonterminals + nonterminal + 1] - 1 # next_state

\* the reduce function is about to run the arm of a production of the start
\* symbol
StartReduction ==
    Reducing /\ ReducedProduction.nonterminal = grammar.start_symbol

\* the values the arm of ReducedProduction pops, first symbol first
PoppedValues ==
    LET k == Len(ReducedProduction.symbols)
        n == Len(symbols)
    IN  [i \in 1..k |-> <<symbols[n - k + i][1],
                          symbols[n - k + i][2].data,
                          symbols[n - k + i][3]>>]

\* the step that reduces a production of the start symbol whose action
\* does not fail
StartReductionStep ==
    (StartReduction /\ result'.tag # "Err") =>
        /\ pc' = "done"
        /\ result'.tag = "Ok"
        /\ result'.v.action = ReducedProduction.action
        /\ ReducedProduction.symbols # <<>> => result'.v.args = PoppedValues
        /\ UNCHANGED <<states, pos, nonterminal, goto_state, next_state>>
        /\ Len(symbols') = Len(symbols) - Len(ReducedProduction.symbols)

\* C20: start-production early return.  When the nonterminal of the reduced
\* production is the start symbol, the reduce step returns the value of the
\* action as the overall success result right after the action has run: the
\* state stack is not truncated, no value is pushed and GOTO is not read.
\* This holds for a reduction made in the EOF loop and for one made in the
\* token loop alike, and a success result comes from nowhere else.
C20_StartEarlyReturn ==
    /\ [][StartReductionStep]_vars
    /\ [][result'.tag = "Ok" /\ result.tag # "Ok" => StartReduction]_vars
    /\ [](pc \in {"goto", "push"} =>
            NonterminalAt(nonterminal) # grammar.start_symbol)

\* a production of the start symbol has been reduced in the token loop, with
\* the third token as the lookahead: the parse has returned Ok with the three
\* states still on the state stack and the lookahead not shifted
C20_Witness ==
    /\ pc = "done"
    /\ result.tag = "Ok"
    /\ action < 0
    /\ ReducedProduction.nonterminal = grammar.start_symbol
    /\ lookahead_start = Some(lookahead[1])
    /\ pos = 3
    /\ Len(shifted) = 2
    /\ Len(states) = 3
    /\ symbols = <<>>
    /\ Len(result.v.args) = 2

\* the span of the value a reduction pushes, k being the number of symbols
\* of the production; in the token loop the lookahead is the item of the
\* stream pulled last
SpanStep ==
    LET k == Len(ReducedProduction.symbols)
        n == Len(symbols)
        start == IF k > 0 THEN symbols[n - k + 1][1]
                 ELSE IF n > 0 THEN symbols[n][3]
                 ELSE DefaultLocation
        end == IF k > 0 THEN symbols[n][3]
               ELSE IF pc = "dispatch" THEN input[pos].v[1]
               ELSE start
    IN  (Reducing /\ pc' = "goto") =>
            /\ Last(symbols')[1] = start
            /\ Last(symbols')[3] = end
            /\ k = 0 => Last(symbols')[2].data.args = <<start, end>>

\* C21: span computation of a reduction with k symbols.  If k > 0 the start
\* of the pushed value is the start location of the production's first symbol
\* and its end the end location of the last symbol; if k = 0 the start is the
\* end location of the value on top of the value stack (the default location
\* when the stack is empty) and the end is the start location of the
\* lookahead when there is one, else the start (an empty reduction made at
\* end of input).
C21_Span ==
    [][SpanStep]_vars

\* an empty production has been reduced at end of input on top of a value
\* that ends at location 2: the value pushed spans 2 .. 2
C21_Witness ==
    /\ pc = "goto"
    /\ ~lookahead_start.some
    /\ action < 0
    /\ ReducedProduction.symbols = <<>>
    /\ Len(symbols) = 2
    /\ symbols[1][3] = 2
    /\ Last(symbols)[1] = 2
    /\ Last(symbols)[3] = 2

\* the step in which the action of the reduced production returns an error
ActionErrorStep ==
    (Reducing /\ result'.tag = "Err") =>
        /\ ReducedProduction.action \in grammar.fallible
        /\ result' = Err(ActionError(ReducedProduction.action))
        /\ pc' = "done"
        /\ UNCHANGED <<states, pos, shifted, nonterminal, goto_state, next_state>>
        /\ symbols' = DropLast(symbols, Len(ReducedProduction.symbols))

\* C22: action error propagation.  When a fallible action returns an error
\* during a reduction, that error is the result of the parse, as it is, and
\* the parse stops there: the state stack is not truncated, no value is
\* pushed, GOTO is not read, and what earlier shifts and reductions left on
\* the stacks is not rolled back; an action that is not fallible never ends
\* the parse this way.
C22_ActionError ==
    /\ [][ActionErrorStep]_vars
    /\ [][(Reducing /\ ReducedProduction.action \notin grammar.fallible)
              => result'.tag # "Err"]_vars

\* a fallible action has failed in the EOF loop after a reduction and two
\* shifts: the four states are still on the state stack, and the value of the
\* earlier reduction is still on the value stack
C22_Witness ==
    /\ pc = "done"
    /\ result.tag = "Err"
    /\ action < 0
    /\ ~lookahead_start.some
    /\ result.e = ActionError(ReducedProduction.action)
    /\ Len(shifted) = 3
    /\ Len(states) = 4
    /\ Len(symbols) = 2
    /\ symbols[1][2].variant = "Nt" \o NonterminalAt(0)
    /\ symbols[1][2].data.action # ReducedProduction.action

\* the value stack ends in one value per symbol of production p, each under
\* the variant of its symbol, the value of the last symbol on top
TopMatches(p) ==
    LET k == Len(p.symbols)
        n == Len(symbols)
    IN  /\ k <= n
        /\ \A j \in 1..k :
              symbols[n - k + j][2].variant = variant_name_for_symbol(p.symbols[j])

\* C23: downcast soundness.  With tables built from a well-formed LR(1)
\* automaton, for every token stream, malformed ones included, every reduce
\* entry read is the code of a production, and every downcast of a reduction
\* pops a value whose tag is the variant of the production's symbol being
\* popped, the symbols being popped last to first; so the parser function
\* never aborts ("symbol type mismatch", "invalid action code" or otherwise)
\* and bad input only ever yields an error result.
C23_DowncastSound ==
    /\ Reducing =>
        /\ -action \in 1..NumProductions
        /\ TopMatches(ReducedProduction)
    /\ result.tag # "panic"
    /\ pc = "done" => result.tag \in {"Ok", "Err"}

\* a stream that cannot be parsed has ended in an error after a reduction
\* that popped three values of three variants off the stack
C23_Witness ==
    /\ pc = "done"
    /\ result.tag = "Err"
    /\ pos = MaxTokens
    /\ Len(symbols) = 2
    /\ symbols[1][2].variant = "Nt" \o NonterminalAt(0)
    /\ Len(symbols[1][2].data.args) = 3
    /\ symbols[2][2].variant = "Term" \o Escape(shifted[pos][2])

-----------------------------------------------------------------------------
(* Properties of the closure of LR(1) items.                               *)

\* `items` has returned
Closed == pc = "closed"

\* the symbols after the nonterminal that stands after the dot of item it
Beta(it) ==
    SubSeq(it.production.symbols, it.index + 2, Len(it.production.symbols))

\* item it has a nonterminal after the dot
BeforeNonterminal(it) ==
    /\ it.index < Len(it.production.symbols)
    /\ it.production.symbols[it.index + 1].kind = "Nonterminal"

\* the tokens that can start Beta(it) followed by the lookahead of it
StartOfRest(it) ==
    first_of(grammar,
             first_sets(grammar, [nt \in Range(nonterminals_keys(grammar)) |-> {}]),
             Beta(it), {it.lookahead})

\* item it stands in the closure because of item from
AddedFor(it, from) ==
    /\ BeforeNonterminal(from)
    /\ it.production.nonterminal = from.production.symbols[from.index + 1].id
    /\ it.index = 0
    /\ it.lookahead \in StartOfRest(from)

\* what the tests expect of the three calls they make
A_B_C == Production("A", <<Nonterminal("B"), Terminal("C")>>, 0)
B_D == Production("B", <<Terminal("D")>>, 1)
B_empty == Production("B", <<>>, 2)
A_BC == Production("A", <<Nonterminal("B"), Nonterminal("C")>>, 0)
B_B1 == Production("B", <<Terminal("B1")>>, 1)
C_C1 == Production("C", <<Terminal("C1")>>, 3)
C_empty == Production("C", <<>>, 4)

Expected ==
    /\ (grammar = FooGrammar /\ lr1.nonterminal = "A" /\ lr1.index = 0
            /\ lr1.lookahead = TokenEOF) =>
        lr1.items = {Item(A_B_C, 0, TokenEOF),
                     Item(B_D, 0, TokenTerminal("C")),
                     Item(B_empty, 0, TokenTerminal("C"))}
    /\ (grammar = Foo1Grammar /\ lr1.nonterminal = "A" /\ lr1.index = 0
            /\ lr1.lookahead = TokenEOF) =>
        lr1.items = {Item(A_BC, 0, TokenEOF),
                     Item(B_B1, 0, TokenTerminal("C1")),
                     Item(B_empty, 0, TokenTerminal("C1")),
                     Item(B_B1, 0, TokenEOF),
                     Item(B_empty, 0, TokenEOF)}
    /\ (grammar = Foo1Grammar /\ lr1.nonterminal = "A" /\ lr1.index = 1
            /\ lr1.lookahead = TokenEOF) =>
        lr1.items = {Item(A_BC, 1, TokenEOF),
                     Item(C_C1, 0, TokenEOF),
                     Item(C_empty, 0, TokenEOF)}

-----------------------------------------------------------------------------
(* Properties of the parser that the source leaves unsaid.                 *)

\* the parser is about to read ACTION, or EOF_ACTION
AtLookup == pc \in {"resolve", "eof"}

\* C25: stack-length invariant.  At every ACTION lookup and every EOF_ACTION
\* lookup of the parser the state stack is not empty and is one entry longer
\* than the value stack, whatever shifts and completed reductions of
\* productions other than the start symbol's have been made since the start
\* with states = [0] and symbols = [].
C25_StackLengths ==
    AtLookup =>
        /\ states # <<>>
        /\ Len(states) = Len(symbols) + 1

\* EOF_ACTION is about to be read a second time, after three shifts, the
\* reductions made between them and one reduction in the EOF loop
C25_Witness ==
    /\ pc = "eof"
    /\ action < 0
    /\ ~lookahead_start.some
    /\ Len(shifted) = 3
    /\ Len(states) = 4
    /\ Len(symbols) = 3

\* the automaton has an edge from state `from` to state `to` on the symbol
\* whose variant is v: a shift on a terminal, a goto on a nonterminal
Edge(from, v, to) ==
    \/ \E t \in Range(grammar.terminals) :
          /\ v = variant_name_for_symbol(Terminal(t))
          /\ t \in DOMAIN StateAt(from).shifts
          /\ StateAt(from).shifts[t] = to
    \/ \E n \in Range(nonterminals_keys(grammar)) :
          /\ v = variant_name_for_symbol(Nonterminal(n))
          /\ n \in DOMAIN StateAt(from).gotos
          /\ StateAt(from).gotos[n] = to

\* sts is a path of the automaton from state 0, labelled by the values syms
IsPath(sts, syms) ==
    /\ Len(sts) = Len(syms) + 1
    /\ sts[1] = 0
    /\ \A i \in DOMAIN sts : sts[i] \in 0..(NumStates - 1)
    /\ \A i \in DOMAIN syms : Edge(sts[i], syms[i][2].variant, sts[i + 1])

\* the parser is in one of its two loops, outside the reduce function
InLoop == pc \in {"shift", "classify", "resolve", "dispatch", "eof", "eof_dispatch"}

\* C26: path invariant.  With tables built from a well-formed automaton the
\* state stack is a path of the automaton labelled by the value stack:
\* states[0] = 0 and for every i, states[i+1] is the shift target (for the
\* variant of a terminal) or the goto target (for that of a nonterminal) of
\* states[i] on symbols[i].  This holds wherever the parser is in its loops;
\* inside the reduce function, between the truncate and the push of the new
\* state, it holds of the value stack without the value just pushed, and the
\* GOTO entry read for that value is not 0 but the goto target plus one, so
\* every state pushed is a state of the automaton, never -1.
C26_Path ==
    /\ InLoop => IsPath(states, symbols)
    /\ pc \in {"goto", "push"} =>
        /\ symbols # <<>>
        /\ IsPath(states, DropLast(symbols, 1))
    /\ pc = "push" =>
        /\ GOTO[Last(states) * NumNonterminals + nonterminal + 1] # 0
        /\ next_state \in 0..(NumStates - 1)
        /\ Edge(Last(states), Last(symbols)[2].variant, next_state)

\* the state to push for a nonterminal has been looked up on a path of three
\* states whose edges are a goto and a shift
C26_Witness ==
    /\ pc = "push"
    /\ Len(states) = 3
    /\ Len(symbols) = 3
    /\ \E n \in Range(nonterminals_keys(grammar)) :
          symbols[1][2].variant = variant_name_for_symbol(Nonterminal(n))
    /\ \E t \in Range(grammar.terminals) :
          symbols[2][2].variant = variant_name_for_symbol(Terminal(t))
    /\ next_state > states[3]

\* the parser function has returned a result
Returned == pc = "done" /\ result.tag \in {"Ok", "Err"}

\* C27: termination.  For every finite token stream and tables built from a
\* well-formed LR(1) automaton the parser eventually returns a result, Ok or
\* Err: the inner loop makes finitely many reductions for one lookahead
\* before it shifts or fails, the EOF loop makes finitely many reductions
\* before it reduces a production of the start symbol or fails, and no loop
\* runs forever on reductions of empty productions.
C27_Termination ==
    <>Returned

\* the parser has returned Ok for the empty stream, after nothing but
\* reductions in the EOF loop, empty productions among them
C27_Witness ==
    /\ Returned
    /\ input = <<>>
    /\ result.tag = "Ok"
    /\ ~lookahead_start.some
    /\ states = <<0, 3>>
    /\ Len(result.v.args[1][2].args) = 2

\* every reduction of a production of the start symbol that the automaton
\* holds is made with the end of input as its only lookahead
EofGuardedOnly ==
    \A s \in 1..Len(lr_states) :
        \A r \in 1..Len(lr_states[s].reductions) :
            lr_states[s].reductions[r][2].nonterminal = grammar.start_symbol
                => lr_states[s].reductions[r][1] = {TokenEOF}

\* the token stream has reported its end and every token it yielded has
\* been shifted
Exhausted ==
    /\ pos = Len(input)
    /\ Pulled(pos, shifted)

\* C28: acceptance.  The parse returns Ok only as the direct result of the
\* reduction of a production of the start symbol.  When every such reduction
\* of the automaton has the end of input as its only lookahead, Ok is
\* returned from the loop that drains the stacks at end of input and nowhere
\* else: the stream has reported its end and every token it yielded has been
\* shifted, so that no parse succeeds with input left over.
C28_Acceptance ==
    /\ [](result.tag = "Ok" =>
            /\ pc = "done"
            /\ action < 0
            /\ ReducedProduction.nonterminal = grammar.start_symbol
            /\ EofGuardedOnly => (~lookahead_start.some /\ Exhausted))
    /\ [][(result'.tag = "Ok" /\ result.tag # "Ok") =>
            /\ StartReduction
            /\ EofGuardedOnly => (pc = "eof_dispatch" /\ Exhausted)]_vars

\* an automaton whose reductions of the start symbol wait for the end of
\* input has returned Ok after the stream of three tokens has ended and the
\* three tokens have been shifted
C28_Witness ==
    /\ result.tag = "Ok"
    /\ pc = "done"
    /\ EofGuardedOnly
    /\ ~lookahead_start.some
    /\ Len(input) = 3
    /\ Exhausted
    /\ Len(shifted) = 3
    /\ ReducedProduction.nonterminal = grammar.start_symbol

=============================================================================
